---------------------------- MODULE Spec2Model ----------------------------
(***************************************************************************)
(* Patent-Miner: discovery (multi-pass retrieval, deduplication,          *)
(* reranking, viability scoring) and dataset ranking.                     *)
(*                                                                         *)
(* Representation.  Text is a TLA+ string and is processed character by   *)
(* character.  Python's None is the string None below, which no text of   *)
(* the model equals.  Scores are fixed-point integers: a rounded score    *)
(* (round(x, 3)) is held in thousandths (10.0 is 10000), an unrounded     *)
(* intermediate in ten-thousandths (10.0 is 100000), a weight in          *)
(* thousandths (0.24 is 240).  Dates are ISO strings, parsed to a day     *)
(* number by the proleptic Gregorian calendar.                             *)
(***************************************************************************)
EXTENDS Integers, Sequences, FiniteSets, TLC

VARIABLES
    pc,            \* position of the running operation
    cfg,           \* search_config: the resolved patent_search configuration
    today,         \* date.today(), an ISO string
    index,         \* the search service's result stream for a query
    passIdx,       \* 1-based position in build_retrieval_passes, 0 on the single-pass path
    fetch,         \* locals of the running fetch_patents_patentsview call
    requests,      \* session.post calls of the running fetch: <<page, attempt, outcome>>
    pages,         \* <<len(page_items), total_hits>> of each page the running fetch extracted
    fetch_result,  \* what the last fetch returned or raised
    pass_records,  \* list of <<pass_name, raw_record>>
    pass_counts,   \* pass_counts of _discover_raw_records_v2
    diagnostics,   \* diagnostics of the discover_patents call
    normalized,    \* output of _dedupe_and_normalize_records
    filtered,      \* the records kept by the likely-expired filter
    ranked,        \* output of rerank_patent_candidates_v2
    scored,        \* output of _apply_viability_scoring
    results,       \* the list discover_patents returned
    error,         \* the PatentDiscoveryError discover_patents raised
    analysis,      \* PatentAnalysisFramework.results
    call,          \* a call of one scoring or valuation function: its name and arguments
    ret,           \* what that call returned
    tables,        \* the module-level default weight tables
    framework,     \* the PatentAnalysisFramework: its mcp_stack and _macro_signals_cache
    locals,        \* locals of the running or returned valuation call
    history,       \* the estimate_financial_metrics calls made so far and their P10/P90
    stack,         \* a FinancialMCPStack, the file at its cache_path and the clock
    analyzer       \* a PatentAnalyzer of the dashboard: its patents and _enriched_cache

vars == <<pc, cfg, today, index, passIdx, fetch, requests, pages, fetch_result,
          pass_records, pass_counts, diagnostics, normalized, filtered, ranked,
          scored, results, error, analysis, call, ret, tables, framework, locals,
          history, stack, analyzer>>

-----------------------------------------------------------------------------
(* Python values *)

None == "<None>"

\* bool(v) of an optional string: None and "" are falsy.
Truthy(v) == v # None /\ v # ""

\* a or b
Or(a, b) == IF Truthy(a) THEN a ELSE b

\* str(v) / f"{v}"
PyStr(v) == IF v = None THEN "None" ELSE v

Max(a, b) == IF a >= b THEN a ELSE b
Min(a, b) == IF a <= b THEN a ELSE b

RECURSIVE SumOver(_, _)
\* sum(f[x] for x in S), f a function on the finite set S
SumOver(f, S) ==
    IF S = {} THEN 0
    ELSE LET x == CHOOSE y \in S : TRUE IN f[x] + SumOver(f, S \ {x})

SeqToSet(s) == { s[i] : i \in 1..Len(s) }

\* a list comprehension's result: the elements of f, each computed once
List(f) == f \o <<>>

Char(s, i) == SubSeq(s, i, i)

\* the set of characters of a string
CharsOf(s) == { Char(s, i) : i \in 1..Len(s) }

\* the printable ASCII characters the model's texts use, in code-point order
CodePoints == " !#$%&()*+,-./0123456789:;<=>?@ABCDEFGHIJKLMNOPQRSTUVWXYZ[]^_abcdefghijklmnopqrstuvwxyz{|}~"

\* ord(c), up to a monotone renumbering; 0 for a character outside CodePoints
OrdTable == [c \in CharsOf(CodePoints) |-> CHOOSE i \in 1..Len(CodePoints) : Char(CodePoints, i) = c]

Ord(c) == IF c \in DOMAIN OrdTable THEN OrdTable[c] ELSE 0

RECURSIVE StrLessFrom(_, _, _)
StrLessFrom(a, b, i) ==
    IF i > Len(b) THEN FALSE
    ELSE IF i > Len(a) THEN TRUE
    ELSE IF Char(a, i) = Char(b, i) THEN StrLessFrom(a, b, i + 1)
    ELSE Ord(Char(a, i)) < Ord(Char(b, i))

\* a < b on Python strings (lexicographic by code point)
StrLess(a, b) == StrLessFrom(a, b, 1)

UpperCase == "ABCDEFGHIJKLMNOPQRSTUVWXYZ"
LowerCase == "abcdefghijklmnopqrstuvwxyz"
Digits == "0123456789"

LowerTable == [c \in CharsOf(UpperCase) |->
                  Char(LowerCase, CHOOSE i \in 1..Len(UpperCase) : Char(UpperCase, i) = c)]

DigitTable == [c \in CharsOf(Digits) |-> (CHOOSE i \in 1..Len(Digits) : Char(Digits, i) = c) - 1]

AlnumChars == CharsOf(LowerCase) \cup CharsOf(Digits)

LowerChar(c) == IF c \in DOMAIN LowerTable THEN LowerTable[c] ELSE c

RECURSIVE ConcatChars(_, _, _)
\* f[lo] \o ... \o f[hi] for a function f from positions to strings
ConcatChars(f, lo, hi) ==
    IF lo > hi THEN ""
    ELSE IF lo = hi THEN f[lo]
    ELSE LET mid == (lo + hi) \div 2
         IN  ConcatChars(f, lo, mid) \o ConcatChars(f, mid + 1, hi)

\* str.lower()
Lower(s) == ConcatChars([i \in 1..Len(s) |-> LowerChar(Char(s, i))], 1, Len(s))

RECURSIVE Strip(_)
\* str.strip()
Strip(s) ==
    IF s = "" THEN ""
    ELSE IF Char(s, 1) = " " THEN Strip(SubSeq(s, 2, Len(s)))
    ELSE IF Char(s, Len(s)) = " " THEN Strip(SubSeq(s, 1, Len(s) - 1))
    ELSE s

\* needle in hay
Contains(hay, needle) ==
    \E i \in 1..(Len(hay) - Len(needle) + 1) : SubSeq(hay, i, i + Len(needle) - 1) = needle

-----------------------------------------------------------------------------
(* scoring_utils.py *)

STOPWORDS == {"a", "an", "and", "are", "as", "at", "be", "by", "for", "from", "in",
              "into", "is", "it", "of", "on", "or", "that", "the", "to", "with"}

\* the value as it is, not clamped
clampOff(value, lower, upper) == value

clamp(value, lower, upper) == Max(lower, Min(upper, value))

IsAlnum(c) == c \in AlnumChars

\* a character the pattern [^a-z0-9\s] leaves alone
Kept(c) == IsAlnum(c) \/ c = " "

\* re.sub(r"[^a-z0-9\s]+", " ", text.lower()): every run of other characters
\* becomes one space
CollapseOthers(low) ==
    ConcatChars([i \in 1..Len(low) |->
                    IF Kept(Char(low, i)) THEN Char(low, i)
                    ELSE IF i = 1 \/ Kept(Char(low, i - 1)) THEN " " ELSE ""],
                1, Len(low))

normalize_text(text) == CollapseOthers(Lower(Or(text, "")))

RECURSIVE ConcatSeqs(_, _, _)
\* f[lo] \o ... \o f[hi] for a function f from positions to sequences
ConcatSeqs(f, lo, hi) ==
    IF lo > hi THEN <<>>
    ELSE IF lo = hi THEN f[lo]
    ELSE LET mid == (lo + hi) \div 2
         IN  ConcatSeqs(f, lo, mid) \o ConcatSeqs(f, mid + 1, hi)

RECURSIVE WordEnd(_, _)
\* the last position of the run of non-space characters that holds position i
WordEnd(s, i) == IF i = Len(s) \/ Char(s, i + 1) = " " THEN i ELSE WordEnd(s, i + 1)

\* str.split(): the maximal runs of non-space characters, in order
Split(s) ==
    ConcatSeqs([i \in 1..Len(s) |->
                   IF Char(s, i) # " " /\ (i = 1 \/ Char(s, i - 1) = " ")
                   THEN <<SubSeq(s, i, WordEnd(s, i))>> ELSE <<>>],
               1, Len(s))

tokenize_text(text) ==
    SelectSeq(Split(normalize_text(text)), LAMBDA tok : Len(tok) > 1 /\ tok \notin STOPWORDS)


-----------------------------------------------------------------------------
(* dates: datetime.strptime(value, "%Y-%m-%d").date() and date subtraction *)

IsDigits(s) == s # "" /\ \A i \in 1..Len(s) : Char(s, i) \in DOMAIN DigitTable

RECURSIVE ParseInt(_)
ParseInt(s) ==
    IF s = "" THEN 0
    ELSE 10 * ParseInt(SubSeq(s, 1, Len(s) - 1)) + DigitTable[Char(s, Len(s))]

IsLeap(y) == (y % 4 = 0 /\ y % 100 # 0) \/ y % 400 = 0

DaysInMonth(y, m) ==
    IF m = 2 THEN (IF IsLeap(y) THEN 28 + 1 ELSE 28)
    ELSE IF m \in {4, 6, 9, 11} THEN 30 ELSE 31

\* day number of a civil date (date.toordinal up to a constant offset)
DayNumber(y, m, d) ==
    LET yy  == IF m <= 2 THEN y - 1 ELSE y
        era == yy \div 400
        yoe == yy - era * 400
        mp  == IF m > 2 THEN m - 3 ELSE m + 9
        doy == (153 * mp + 2) \div 5 + d - 1
        doe == yoe * 365 + yoe \div 4 - yoe \div 100 + doy
    IN  era * 146097 + doe

\* the "-"-separated fields of a string
RECURSIVE DashFieldsFrom(_, _, _)
DashFieldsFrom(s, i, cur) ==
    IF i > Len(s) THEN <<cur>>
    ELSE IF Char(s, i) = "-" THEN <<cur>> \o DashFieldsFrom(s, i + 1, "")
    ELSE DashFieldsFrom(s, i + 1, cur \o Char(s, i))

\* date(y, m, d): <<day number>>, or <<>> for a ValueError
CivilDate(y, m, d) ==
    IF y >= 1 /\ m \in 1..12 /\ d >= 1 /\ d <= DaysInMonth(y, m)
    THEN <<DayNumber(y, m, d)>> ELSE <<>>

\* strptime on the "-"-separated fields f of a string
DateOfFields(f) ==
    IF Len(f) # 3 THEN <<>>
    ELSE IF ~(IsDigits(f[1]) /\ Len(f[1]) = 4 /\ IsDigits(f[2]) /\ Len(f[2]) <= 2
              /\ IsDigits(f[3]) /\ Len(f[3]) <= 2) THEN <<>>
    ELSE CivilDate(ParseInt(f[1]), ParseInt(f[2]), ParseInt(f[3]))

\* <<day number>> for a string strptime accepts as %Y-%m-%d, <<>> (None)
\* for a non-string, an empty string or a ValueError
_iso_date(value) ==
    IF ~Truthy(value) THEN <<>> ELSE DateOfFields(DashFieldsFrom(value, 1, ""))

\* (a - b).days for two parsed dates
DaysBetween(a, b) == a[1] - b[1]

\* dict.get(key) on a record
Get(d, key) == IF key \in DOMAIN d THEN d[key] ELSE None

\* f"{d.get(key, '')}"
GetStr(d, key) == IF key \in DOMAIN d THEN PyStr(d[key]) ELSE ""

\* round(n / d) to the nearest integer, ties to even (Python's round)
RoundDiv(n, d) ==
    LET q == n \div d
        r == n % d
    IN  IF 2 * r < d THEN q
        ELSE IF 2 * r > d THEN q + 1
        ELSE IF q % 2 = 0 THEN q ELSE q + 1

-----------------------------------------------------------------------------
(* Python float arithmetic, as binary floating point with a 15-bit
   significand: the value of [m |-> m, e |-> e] is m * 2^e, and a non-zero
   number is kept normalised, 16384 <= |m| < 32768.  Every operation rounds
   its exact result to the nearest representable number, as IEEE-754 does
   with 53 bits. *)

Abs(n) == IF n < 0 THEN -n ELSE n

Sign(n) == IF n < 0 THEN -1 ELSE IF n > 0 THEN 1 ELSE 0

Pow2(k) == <<1, 2, 4, 8, 16, 32, 64, 128, 256, 512, 1024, 2048, 4096, 8192, 16384, 32768, 65536, 131072, 262144, 524288, 1048576, 2097152, 4194304, 8388608, 16777216, 33554432, 67108864, 134217728, 268435456, 536870912, 1073741824>>[k + 1]

\* the number of binary digits of n > 0
BitLength(n) == CHOOSE k \in 1..31 : Pow2(k - 1) <= n /\ (k = 31 \/ n < Pow2(k))

FloatZero == [m |-> 0, e |-> 0]

\* Op(x, y) with both operands evaluated first, once, as Python evaluates the
\* operands of an operator and the arguments of a call
Evaluated(Op(_, _), x, y) == CHOOSE result \in {Op(a, b) : a \in {x}, b \in {y}} : TRUE

Evaluated3(Op(_, _, _), x, y, z) == CHOOSE result \in {Op(a, b, c) : a \in {x}, b \in {y}, c \in {z}} : TRUE

\* n / 2^k rounded to the nearest integer, ties to even
RoundShift(n, k) == Evaluated(RoundDiv, n, Pow2(k))

Carry(m, e) == IF m = 32768 THEN [m |-> 16384, e |-> e + 1] ELSE [m |-> m, e |-> e]

Renormalise(m, e) == Evaluated(Carry, m, e)

NormalisePositive(n, e, len) == IF len > 15 THEN Renormalise(RoundShift(n, len - 15), e + (len - 15)) ELSE [m |-> n * Pow2(15 - len), e |-> e - (15 - len)]

Negate(x) == [m |-> -x.m, e |-> x.e]

\* the float nearest to n * 2^e, for an integer |n| < 2^31
Nearest(n, e) == IF n = 0 THEN FloatZero ELSE IF n > 0 THEN Evaluated3(NormalisePositive, n, e, BitLength(n)) ELSE Negate(Evaluated3(NormalisePositive, -n, e, BitLength(-n)))

Normalise(n, e) == Evaluated(Nearest, n, e)

Float(n) == Normalise(n, 0)

\* n / d for integers, e.g. Ratio(-95, 100) for the literal -0.95
Ratio(n, d) == IF n = 0 THEN FloatZero ELSE Normalise(RoundDiv(Abs(n) * Pow2(30 - BitLength(Abs(n))), d) * Sign(n), BitLength(Abs(n)) - 30)

Product(x, y) == Normalise(x.m * y.m, x.e + y.e)

FMul(x, y) == Evaluated(Product, x, y)

\* x / y for y # 0 (Python raises ZeroDivisionError otherwise)
Quotient(x, y) == Normalise(RoundDiv(Abs(x.m) * 65536, Abs(y.m)) * Sign(x.m) * Sign(y.m), x.e - y.e - 16)

FDiv(x, y) == Evaluated(Quotient, x, y)

\* x + y for x.e >= y.e: the smaller operand is shifted onto the larger one's scale with three guard bits
AddAligned(x, y, d) == IF d > 18 THEN x ELSE Normalise(x.m * 8 + RoundShift(y.m * 8, d), x.e - 3)

Sum(x, y) == IF x.m = 0 THEN y ELSE IF y.m = 0 THEN x ELSE IF x.e >= y.e THEN AddAligned(x, y, x.e - y.e) ELSE AddAligned(y, x, y.e - x.e)

FAdd(x, y) == Evaluated(Sum, x, y)

FSub(x, y) == FAdd(x, Negate(y))

FAbs(x) == [m |-> Abs(x.m), e |-> x.e]

FSign(x) == Sign(x.m)

\* x < y
FLess(x, y) == FSign(FSub(x, y)) < 0

FLeq(x, y) == FSign(FSub(x, y)) <= 0

RECURSIVE FPow(_, _)
\* x ** n for an integer n >= 0
FPow(x, n) == IF n = 0 THEN Float(1) ELSE FMul(FPow(x, n - 1), x)

\* the integer nearest to x * scale, for results below 2^31
Scaled(x, scale) == IF x.m = 0 THEN 0 ELSE IF x.e >= 0 THEN x.m * Pow2(x.e) * scale ELSE IF -x.e > 30 THEN 0 ELSE RoundDiv(x.m * scale, Pow2(-x.e))

-----------------------------------------------------------------------------
(* patent_analysis_framework.py: estimate_financial_metrics.  Money is in
   whole dollars; rates, margins, shares and multipliers are in
   ten-thousandths (0.0775 is 775, 1.18 is 11800); every product and quotient
   is rounded to the nearest unit. *)

\* a * f for a factor f in ten-thousandths
Mul(a, f) == (a \div 10000) * f + RoundDiv((a % 10000) * f, 10000)

\* a / f for a factor f > 0 in ten-thousandths
Div(a, f) == (a \div f) * 10000 + RoundDiv((a % f) * 10000, f)

\* np.clip(x, lo, hi)
clip(x, lo, hi) == Min(Max(x, lo), hi)

\* FinancialMCPStack.get_industry_benchmark, over the stack's loaded snapshot
get_industry_benchmark(mcp_stack, industry_name) == IF industry_name \in DOMAIN mcp_stack.industry_benchmarks THEN mcp_stack.industry_benchmarks[industry_name] ELSE mcp_stack.industry_benchmarks["Total  Market (without financials)"]

\* self._macro_signals_cache before the first fetch (None)
NotFetched == <<>>

\* PatentAnalysisFramework._macro_signals: the signals are fetched once
_macro_signals(self) == IF self._macro_signals_cache = NotFetched THEN self.mcp_stack.macro_signals ELSE self._macro_signals_cache

\* f"{title} {abstract}", both lowered
CombinedText(patent) == Lower(GetStr(patent, "title")) \o " " \o Lower(GetStr(patent, "abstract"))

AnyWordIn(words, combined) == \E word \in words : Contains(combined, word)

innovation_margin_uplift(combined) == 200 + (IF AnyWordIn({"automation", "efficiency", "predictive"}, combined) THEN 100 ELSE 0) + (IF AnyWordIn({"premium", "accuracy", "quality"}, combined) THEN 100 ELSE 0)

serviceable_share(profile, combined) == clip(8 + 6 * Len(profile.required_equipment) + 4 * Len(profile.required_materials) + (IF Contains(combined, "wireless") \/ Contains(combined, "sensor") THEN 15 ELSE 0) + (IF Contains(combined, "medical") \/ Contains(combined, "health") THEN 10 ELSE 0), 10, 400)

years == 10

\* sum(ord(ch) for ch in text)
SumOrds(text) == SumOver([i \in 1..Len(text) |-> Ord(Char(text, i))], 1..Len(text))

\* sum(ord(ch) for ch in str(patent.get("patent_number", ""))) + years
patent_seed(patent) == SumOrds(GetStr(patent, "patent_number")) + years

\* the benchmark-driven assumptions shared by every scenario (lines 447-513)
Assumptions(patent, profile, benchmark, macro, combined, capex_mid, market_size_total) ==
    [capex_mid |-> capex_mid,
     discount_rate_base |-> clip(RoundDiv(benchmark.cost_of_capital * 75 + macro.risk_free_rate * 25, 100), 600, 2000),
     tax_rate |-> clip(benchmark.tax_rate, 1000, 3500),
     operating_margin_base |-> clip(clip(benchmark.operating_margin, 500, 4000) + innovation_margin_uplift(combined), 600, 5000),
     market_growth_base |-> clip(RoundDiv(35 * macro.real_gdp_growth + 25 * macro.inflation_rate + 40 * Max(benchmark.net_capex_to_revenue, 100), 100), 100, 1600),
     sales_to_capital |-> clip(benchmark.sales_to_invested_capital, 9000, 45000),
     working_capital_ratio |-> clip(benchmark.non_cash_working_capital_to_revenue, 200, 3000),
     annual_opex_change |-> profile.opex_annual_change,
     inflation_rate |-> macro.inflation_rate,
     ev_to_sales |-> clip(benchmark.ev_to_sales, 4000, 100000),
     market_size_total |-> market_size_total,
     serviceable_market |-> Mul(market_size_total, serviceable_share(profile, combined)),
     process_or_method |-> Contains(combined, "method") \/ Contains(combined, "process"),
     patent_seed |-> patent_seed(patent)]

year1_revenue(a) == clip(Min(Mul(a.serviceable_market, 1800), Mul(Mul(a.capex_mid, a.sales_to_capital), 11000)), Mul(a.capex_mid, 4000), a.serviceable_market)

\* the assumptions with the first-year figures derived from them (lines 505-513)
WithRevenue(a, y1) ==
    [field \in DOMAIN a \cup {"year1_revenue", "annual_cost_savings", "annual_revenue_uplift", "initial_working_capital"} |->
        IF field = "year1_revenue" THEN y1
        ELSE IF field = "annual_cost_savings" THEN Mul(y1, IF a.process_or_method THEN 2000 ELSE 1000)
        ELSE IF field = "annual_revenue_uplift" THEN Mul(y1, IF a.process_or_method THEN 1000 ELSE 1800)
        ELSE IF field = "initial_working_capital" THEN Mul(Mul(y1, a.working_capital_ratio), 5000)
        ELSE a[field]]

\* the free cash flow of one year, from that year's revenue, savings and drag
free_cash_flow(a, s, year, revenue, prev_revenue, ebit, initial_investment) ==
    (ebit - Mul(Max(0, ebit), a.tax_rate))
    + (IF year <= 7 THEN RoundDiv(initial_investment, 7) ELSE 0)
    - Div(Max(0, revenue - prev_revenue), a.sales_to_capital)
    - Mul(initial_investment, 200)
    - Mul(Max(0, revenue - prev_revenue), a.working_capital_ratio)

Revenue(a, s, year, growth) == Mul(Mul(Mul(a.year1_revenue, s.revenue_multiplier), growth), clip(3500 + 850 * year, 2500, 10000))

Ebit(a, s, revenue, savings_growth, inflation) == Mul(revenue, s.operating_margin) + Mul(Mul(a.annual_cost_savings, s.savings_multiplier), savings_growth) - Mul(a.annual_opex_change, inflation)

RECURSIVE YearLoop(_, _, _, _, _, _, _, _, _)
\* one pass of the loop body, for the revenue of that year
YearBody(a, s, initial_investment, year, prev_revenue, revenue, growth, savings_growth, inflation, cash_flows) ==
    YearLoop(a, s, initial_investment, year + 1, revenue,
             Mul(growth, 10000 + s.growth_rate),
             Mul(savings_growth, 10000 + RoundDiv(s.growth_rate * 35, 100)),
             Mul(inflation, 10000 + a.inflation_rate),
             Append(cash_flows, free_cash_flow(a, s, year, revenue, prev_revenue, Ebit(a, s, revenue, savings_growth, inflation), initial_investment)))

\* the loop over range(1, years + 1); growth, savings_growth and inflation
\* are (1 + rate) ** (year - 1), carried from year to year
YearLoop(a, s, initial_investment, year, prev_revenue, growth, savings_growth, inflation, cash_flows) ==
    IF year > years THEN cash_flows
    ELSE YearBody(a, s, initial_investment, year, prev_revenue, Revenue(a, s, year, growth), growth, savings_growth, inflation, cash_flows)

RECURSIVE Discounted(_, _, _, _)
\* sum(cf / ((1.0 + discount_rate) ** idx) for idx, cf in enumerate(cash_flows))
Discounted(cash_flows, discount_rate, idx, factor) ==
    IF idx > Len(cash_flows) THEN 0
    ELSE Div(cash_flows[idx], factor) + Discounted(cash_flows, discount_rate, idx + 1, Mul(factor, 10000 + discount_rate))

CashFlows(a, s, initial_investment) == YearLoop(a, s, initial_investment, 1, 0, 10000, 10000, 10000, <<-initial_investment>>)

NpvAndFlows(cash_flows, discount_rate) == [npv_value |-> Discounted(cash_flows, discount_rate, 1, 10000), cash_flows |-> cash_flows]

\* s: the six arguments of the nested function
scenario_cash_flow(a, s) == NpvAndFlows(CashFlows(a, s, Mul(a.capex_mid, s.capex_multiplier) + a.initial_working_capital), s.discount_rate)

Scenario(growth_rate, operating_margin, discount_rate, capex_multiplier, savings_multiplier, revenue_multiplier) ==
    [growth_rate |-> growth_rate, operating_margin |-> operating_margin, discount_rate |-> discount_rate,
     capex_multiplier |-> capex_multiplier, savings_multiplier |-> savings_multiplier, revenue_multiplier |-> revenue_multiplier]

BaseScenario(a) == Scenario(a.market_growth_base, a.operating_margin_base, a.discount_rate_base, 10000, 10000, 10000)

OptimisticScenario(a) == Scenario(Min(2200, RoundDiv(a.market_growth_base * 130, 100)), Min(5800, a.operating_margin_base + 300), Max(550, a.discount_rate_base - 150), 8800, 12000, 11800)

PessimisticScenario(a) == Scenario(Max(30, RoundDiv(a.market_growth_base * 60, 100)), Max(300, a.operating_margin_base - 400), Min(2600, a.discount_rate_base + 200), 12000, 8000, 8200)

(* numpy.random.Generator: a generator made by default_rng(seed) is
   determined by its seed and by how many numbers have been drawn from it;
   the numbers themselves come from a small mixing function in place of
   numpy's bit stream. *)
default_rng(seed) == [seed |-> seed, drawn |-> 0]

\* sixteen equally likely values of a standard normal variable, in thousandths
NormalQuantiles == <<-1863, -1318, -1010, -776, -579, -402, -237, -78, 78, 237, 402, 579, 776, 1010, 1318, 1863>>

Mixed(n) == ((((n % 65537) * 75 + 74) % 65537) * 75 + 74) % 65537

\* the k-th number after those already drawn from rng, for rng.normal(loc, scale)
normal(rng, k, loc, scale) == loc + RoundDiv(scale * NormalQuantiles[(Mixed(rng.seed * 31 + (rng.drawn + k) * 17 + 7) % 16) + 1], 1000)

\* the six draws of one simulation, in the order the code makes them
SampledScenario(a, rng) ==
    Scenario(clip(normal(rng, 1, a.market_growth_base, 150), 0, 2500),
             clip(normal(rng, 2, a.operating_margin_base, 250), 300, 6000),
             clip(normal(rng, 3, a.discount_rate_base, 120), 500, 3000),
             clip(normal(rng, 4, 10000, 1000), 7500, 13500),
             clip(normal(rng, 5, 10000, 1200), 6500, 14000),
             clip(normal(rng, 6, 10000, 1200), 6500, 14500))

simulations == 200

\* mc_npvs: the generator has made 6 * (k - 1) draws before simulation k
mc_npvs(a, rng) == List([k \in 1..simulations |-> scenario_cash_flow(a, SampledScenario(a, [rng EXCEPT !.drawn = 6 * (k - 1)])).npv_value])

\* sorted(xs), ascending
Sorted(xs) == SortSeq(xs, LAMBDA x, y : x < y)

\* np.percentile of the sorted, non-empty list: linear interpolation at q / 100 * (n - 1)
Interpolated(sorted, q, below) == IF below + 1 >= Len(sorted) THEN sorted[Len(sorted)] ELSE sorted[below + 1] + RoundDiv((sorted[below + 2] - sorted[below + 1]) * ((q * (Len(sorted) - 1)) % 100), 100)

percentile(sorted, q) == Interpolated(sorted, q, (q * (Len(sorted) - 1)) \div 100)

RECURSIVE Payback(_, _, _)
\* the first idx at which the cumulative flow covers the outlay, 999 if none
Payback(base_cash_flows, idx, cumulative) ==
    IF idx > Len(base_cash_flows) THEN 999
    ELSE IF cumulative + base_cash_flows[idx] + base_cash_flows[1] >= 0 THEN idx - 1
    ELSE Payback(base_cash_flows, idx + 1, cumulative + base_cash_flows[idx])

\* a payback that leaves the year-0 outlay out of the cumulative flow
payback_years_without_outlay(base_cash_flows) == Payback([base_cash_flows EXCEPT ![1] = 0], 2, 0)

payback_years(base_cash_flows) == Payback(base_cash_flows, 2, 0)

RECURSIVE Power(_, _)
\* factor ** n for a factor in ten-thousandths
Power(factor, n) == IF n = 0 THEN 10000 ELSE Mul(Power(factor, n - 1), factor)

product_value_estimate(a) == Mul(Mul(a.year1_revenue, Power(10000 + a.market_growth_base, 4)), a.ev_to_sales)

valuation_mid(a, npv_base) == Max(0, Mul(Max(npv_base, 0), 5500) + Mul(product_value_estimate(a), 3000) + Mul(Mul(a.capex_mid, 12500), 1500))

\* the low end without its floor at zero
valuation_low_unfloored(npv_pessimistic, p10_npv, mid) == Min(Min(npv_pessimistic, p10_npv), Mul(mid, 6500))

\* max(0.0, min(npv_pessimistic, p10_npv, valuation_mid * 0.65))
valuation_low(npv_pessimistic, p10_npv, mid) == Max(0, Min(Min(npv_pessimistic, p10_npv), Mul(mid, 6500)))

valuation_high(npv_optimistic, p90_npv, mid) == Max(Max(npv_optimistic, p90_npv), Mul(mid, 13500))

(* patent_analysis_framework.py: _estimate_internal_rate_percent, in the
   floating-point arithmetic above.  The locals of a call are a record; a
   call that has returned holds its value in `value`; `iterations` counts
   the passes of the loop begun; `caller` holds the locals of the
   estimate_financial_metrics call waiting for the value, if there is one. *)

\* the locals on entry: the bracket, no NPV computed yet
IrrLocals(cash_flows, caller) == [cash_flows |-> cash_flows, caller |-> caller, returned |-> FALSE, value |-> FloatZero, iterations |-> 0, low |-> Ratio(-95, 100), high |-> Float(2), low_npv |-> FloatZero, high_npv |-> FloatZero]

\* `return value`
IrrReturned(st, value) == [st EXCEPT !.returned = TRUE, !.value = value]

RECURSIVE NpvSum(_, _, _, _, _)
\* sum(cf / ((1.0 + rate) ** i) for i, cf in enumerate(cash_flows)), the
\* power carried from term to term; base is 1.0 + rate
NpvSum(cash_flows, base, i, power, total) ==
    IF i > Len(cash_flows) THEN total
    ELSE CHOOSE sum \in {NpvSum(cash_flows, base, i + 1, next_power, next_total) : next_power \in {FMul(power, base)}, next_total \in {FAdd(total, FDiv(cash_flows[i], power))}} : TRUE

npv(cash_flows, rate) == NpvSum(cash_flows, FAdd(Float(1), rate), 1, Float(1), FloatZero)

\* low_npv * high_npv > 0: return 0.0
Bracket(st, low_npv, high_npv) == IF FSign(low_npv) * FSign(high_npv) > 0 THEN IrrReturned(st, FloatZero) ELSE [st EXCEPT !.low_npv = low_npv, !.high_npv = high_npv]

\* the function up to the loop: the guards and the bracket
IrrEnter(st) ==
    IF Len(st.cash_flows) < 2 THEN IrrReturned(st, FloatZero)
    ELSE IF FSign(st.cash_flows[1]) >= 0 THEN IrrReturned(st, FloatZero)
    ELSE IF \A i \in 2..Len(st.cash_flows) : FSign(st.cash_flows[i]) <= 0 THEN IrrReturned(st, FloatZero)
    ELSE Bracket(st, npv(st.cash_flows, st.low), npv(st.cash_flows, st.high))

\* a cut at the lower third of the interval
MidpointThird(low, high) == FDiv(FAdd(FAdd(low, low), high), Float(3))

\* mid = (low + high) / 2.0
Midpoint(low, high) == FDiv(FAdd(low, high), Float(2))

\* one pass of the loop body, for the midpoint and the NPV there
IrrBody(st, mid, mid_npv) ==
    IF FLess(FAbs(mid_npv), Ratio(1, 1000000)) THEN IrrReturned([st EXCEPT !.iterations = st.iterations + 1], FMul(mid, Float(100)))
    ELSE IF FSign(st.low_npv) * FSign(mid_npv) < 0 THEN [st EXCEPT !.high = mid, !.high_npv = mid_npv, !.iterations = st.iterations + 1]
    ELSE [st EXCEPT !.low = mid, !.low_npv = mid_npv, !.iterations = st.iterations + 1]

\* `for _ in range(80)`: the next pass, or the return after the last one
IrrStep(st) ==
    IF st.iterations = 80 THEN IrrReturned(st, FMul(Midpoint(st.low, st.high), Float(100)))
    ELSE CHOOSE next \in UNION {{IrrBody(st, mid, mid_npv) : mid_npv \in {npv(st.cash_flows, mid)}} : mid \in {Midpoint(st.low, st.high)}} : TRUE

\* a list of dollar amounts as a list of floats
Floats(amounts) == [i \in 1..Len(amounts) |-> Float(amounts[i])]

\* max(-95.0, min(300.0, irr)) in thousandths of a percent
irr_percent(irr) == Max(-95000, Min(300000, Scaled(irr, 1000)))

(* estimate_financial_metrics assembled (lines 441-667) *)

\* the locals of a call when it calls _estimate_internal_rate_percent (line 623)
EstimateLocals(a, base, npv_optimistic, npv_pessimistic, sorted) ==
    [assumptions |-> a,
     base_cash_flows |-> base.cash_flows,
     npv_base |-> base.npv_value,
     npv_optimistic |-> npv_optimistic,
     npv_pessimistic |-> npv_pessimistic,
     p10_npv |-> percentile(sorted, 10),
     p90_npv |-> percentile(sorted, 90),
     payback_years |-> payback_years(base.cash_flows)]

\* the FinancialMetrics returned, from the locals, the IRR and the mid valuation
FinancialMetrics(e, irr, mid) ==
    [npv_base |-> e.npv_base,
     npv_optimistic |-> e.npv_optimistic,
     npv_pessimistic |-> e.npv_pessimistic,
     payback_period_years |-> e.payback_years,
     irr_percent |-> irr_percent(irr),
     annual_cost_savings |-> e.assumptions.annual_cost_savings,
     annual_revenue_uplift |-> e.assumptions.annual_revenue_uplift,
     valuation_low |-> valuation_low(e.npv_pessimistic, e.p10_npv, mid),
     valuation_mid |-> mid,
     valuation_high |-> valuation_high(e.npv_optimistic, e.p90_npv, mid),
     market_size_serviceable |-> e.assumptions.serviceable_market,
     product_value_estimate |-> product_value_estimate(e.assumptions),
     risk_adjusted_npv_p10 |-> e.p10_npv,
     risk_adjusted_npv_p90 |-> e.p90_npv]

\* a generator whose stream is not the same on a framework's first call
MonteCarloGeneratorPerCall(self, a) == default_rng(a.patent_seed + (IF self._macro_signals_cache = NotFetched THEN 0 ELSE 1))

\* the Monte Carlo generator of one call: made anew from the candidate's seed
MonteCarloGenerator(self, a) == default_rng(a.patent_seed)

Scenarios(self, a) == EstimateLocals(a, scenario_cash_flow(a, BaseScenario(a)), scenario_cash_flow(a, OptimisticScenario(a)).npv_value, scenario_cash_flow(a, PessimisticScenario(a)).npv_value, Sorted(mc_npvs(a, MonteCarloGenerator(self, a))))

FirstYear(self, a) == Scenarios(self, WithRevenue(a, year1_revenue(a)))

Benchmarked(self, patent, manufacturing_profile, benchmark) == FirstYear(self, Assumptions(patent, manufacturing_profile, benchmark, _macro_signals(self), CombinedText(patent), RoundDiv(manufacturing_profile.capex_low + manufacturing_profile.capex_high, 2), Max(benchmark.revenues_musd * 1000000, 250000000)))

\* the call up to the IRR: lines 441-621
estimate_financial_metrics(self, patent, manufacturing_profile) == Benchmarked(self, patent, manufacturing_profile, get_industry_benchmark(self.mcp_stack, IF manufacturing_profile.benchmark_industry = "" THEN "Total  Market (without financials)" ELSE manufacturing_profile.benchmark_industry))

\* the rest of the call, from the IRR returned: lines 623-667
EstimateResult(e, irr) == FinancialMetrics(e, irr, valuation_mid(e.assumptions, e.npv_base))

(* patent_analysis_framework.py: compute_integrated_score.  Scores are in
   thousandths, the confidence level in ten-thousandths. *)

\* a part of a PatentAnalysisResult that has not been set (None)
Missing == <<>>

RECURSIVE ArtanhSeries(_, _, _, _)
\* t + t^3/3 + t^5/5 + ... up to the term in t^25; power is t^k
ArtanhSeries(square, power, k, total) ==
    IF k > 25 THEN total
    ELSE ArtanhSeries(square, FMul(power, square), k + 2, FAdd(total, FDiv(power, Float(k))))

Artanh(t) == ArtanhSeries(FMul(t, t), t, 1, FloatZero)

\* np.log1p(x) for x >= 0, as 2 * artanh(x / (2 + x))
log1p(x) == FMul(Float(2), Artanh(FDiv(x, FAdd(Float(2), x))))

financial_attractiveness(npv_base) == clip(5000 + Sign(npv_base) * Scaled(FMul(log1p(Ratio(Abs(npv_base), 1000000)), Float(2)), 1000), 0, 10000)

IntegratedScores(result) ==
    [scientific_robustness |-> result.technical_score.scientific_robustness,
     manufacturing_feasibility |-> result.technical_score.manufacturing_feasibility_current,
     modernization_potential |-> result.technical_score.modernization_potential,
     strategic_fit |-> result.strategic_assessment.strategic_fit_score,
     financial_attractiveness |-> financial_attractiveness(result.financial_metrics.npv_base),
     legal_risk_inverted |-> IF result.strategic_assessment.legal_ip_risk = "low" THEN 10000 ELSE 5000,
     esg_sustainability |-> IF result.strategic_assessment.esg_sustainability_benefit = "high" THEN 9000
                            ELSE IF result.strategic_assessment.esg_sustainability_benefit = "medium" THEN 6000 ELSE 3000]

IntegratedWeights ==
    [scientific_robustness |-> 150, manufacturing_feasibility |-> 200, modernization_potential |-> 150,
     strategic_fit |-> 200, financial_attractiveness |-> 200, legal_risk_inverted |-> 50, esg_sustainability |-> 50]

WeightedSum(scores, weights) == RoundDiv(SumOver([dim \in DOMAIN weights |-> scores[dim] * weights[dim]], DOMAIN weights), 1000)

\* min(0.45, spread_ratio * 0.18) for spread_ratio = npv_spread / base; the
\* quotient is not formed where it is 3 or more
SpreadPenalty(npv_spread, base) == IF npv_spread >= 3 * base THEN 4500 ELSE Min(4500, Scaled(FMul(Ratio(npv_spread, base), Ratio(18, 100)), 10000))

\* the confidence without its final clip
confidence_level_unclipped(metrics) == 8800 - SpreadPenalty(Max(1, Abs(metrics.risk_adjusted_npv_p90 - metrics.risk_adjusted_npv_p10)), Max(1, Abs(metrics.npv_base)))

\* float(np.clip(0.88 - min(0.45, spread_ratio * 0.18), 0.45, 0.92))
confidence_level(metrics) == clip(8800 - SpreadPenalty(Max(1, Abs(metrics.risk_adjusted_npv_p90 - metrics.risk_adjusted_npv_p10)), Max(1, Abs(metrics.npv_base))), 4500, 9200)

\* (integrated_score, confidence_level)
compute_integrated_score(result) ==
    IF \E part \in {result.technical_score, result.manufacturing_profile, result.financial_metrics, result.strategic_assessment} : part = Missing
    THEN <<0, 3000>>
    ELSE <<clip(WeightedSum(IntegratedScores(result), IntegratedWeights), 0, 10000), confidence_level(result.financial_metrics)>>

(* PatentAnalysisFramework.__init__ and the snapshot of its FinancialMCPStack *)

\* DEFAULT_INDUSTRY_BENCHMARKS, the fields the valuation reads; industry
\* revenue is in millions of dollars, scaled down to keep dollars in 32 bits
SnapshotBenchmarks ==
    [industry_name \in {"Total  Market (without financials)", "Electronics (General)"} |->
        IF industry_name = "Electronics (General)"
        THEN [industry_name |-> industry_name, cost_of_capital |-> 950, tax_rate |-> 2100, operating_margin |-> 1200,
              ev_to_sales |-> 28000, non_cash_working_capital_to_revenue |-> 1000, net_capex_to_revenue |-> 400,
              sales_to_invested_capital |-> 25000, revenues_musd |-> 90]
        ELSE [industry_name |-> industry_name, cost_of_capital |-> 890, tax_rate |-> 2200, operating_margin |-> 1100,
              ev_to_sales |-> 21000, non_cash_working_capital_to_revenue |-> 1200, net_capex_to_revenue |-> 500,
              sales_to_invested_capital |-> 19000, revenues_musd |-> 1400]]

\* DEFAULT_MACRO_SIGNALS
SnapshotMacro == [risk_free_rate |-> 400, inflation_rate |-> 280, real_gdp_growth |-> 210]

\* PatentAnalysisFramework.__init__ over a stack whose snapshot is loaded
NewFramework == [mcp_stack |-> [industry_benchmarks |-> SnapshotBenchmarks, macro_signals |-> SnapshotMacro], _macro_signals_cache |-> NotFetched]

\* no valuation call is running
NoLocals == <<>>

\* no FinancialMCPStack is followed
NoStack == <<>>

\* no PatentAnalyzer is followed
NoAnalyzer == <<>>

-----------------------------------------------------------------------------

(* viability_scoring.py: expiration confidence *)

\* round(clamp((age_years / threshold) * 10.0), 3) in thousandths, with
\* age_years = max(0.0, days / 365.0)
AgeScore(days, threshold) ==
    clamp(RoundDiv(Max(0, days) * 10000, 365 * threshold), 0, 10000)

\* the score from the parsed dates
ExpirationConfidence(current, filing_date, grant_date, patent_type) ==
    IF filing_date # <<>> THEN AgeScore(DaysBetween(current, filing_date), 20)
    ELSE IF grant_date # <<>>
         THEN AgeScore(DaysBetween(current, grant_date),
                       IF patent_type = "design" THEN 15 ELSE 20)
    ELSE 2000

\* the score with the utility threshold for every patent type
expiration_confidence_score_utility(patent, as_of_date) ==
    ExpirationConfidence(_iso_date(as_of_date),
                         _iso_date(PyStr(Or(Get(patent, "filing_date"), ""))),
                         _iso_date(PyStr(Or(Get(patent, "patent_date"), ""))),
                         "utility")

expiration_confidence_score(patent, as_of_date) ==
    ExpirationConfidence(_iso_date(as_of_date),
                         _iso_date(PyStr(Or(Get(patent, "filing_date"), ""))),
                         _iso_date(PyStr(Or(Get(patent, "patent_date"), ""))),
                         Lower(PyStr(Or(Get(patent, "patent_type"), ""))))

-----------------------------------------------------------------------------
(* patent_discovery.py: normalisation, expiry filter, deduplication *)

\* value, or when it is falsy the field of the first entry of a nested list
FirstNested(value, nested, field) ==
    IF ~Truthy(value) /\ nested # <<>> THEN Get(nested[1], field) ELSE value

NormalizedRecord(raw, patent_number) ==
    [patent_number   |-> patent_number,
     title           |-> Or(Get(raw, "patent_title"), Or(Get(raw, "title"), "")),
     abstract        |-> Or(Get(raw, "patent_abstract"), Or(Get(raw, "abstract"), "")),
     link            |-> Or(Get(raw, "link"),
                            IF Truthy(patent_number)
                            THEN "https://patents.google.com/patent/" \o patent_number
                            ELSE ""),
     patent_date     |-> Or(Get(raw, "patent_date"), None),
     filing_date     |-> FirstNested(Get(raw, "filing_date"),
                            IF "application" \in DOMAIN raw THEN raw.application ELSE <<>>,
                            "filing_date"),
     assignee_type   |-> FirstNested(Get(raw, "assignee_type"),
                            IF "assignees" \in DOMAIN raw THEN raw.assignees ELSE <<>>,
                            "assignee_type"),
     source_provider |-> Or(Get(raw, "source_provider"), "patentsview_patentsearch"),
     patent_type     |-> Get(raw, "patent_type")]

normalize_patent_record(raw) ==
    NormalizedRecord(raw, Or(Get(raw, "patent_id"), Or(Get(raw, "patent_number"), "")))

\* the verdict from the parsed dates
LikelyExpired(as_of, filing, grant, patent_type) ==
    IF filing # <<>> THEN DaysBetween(as_of, filing) >= 20 * 365
    ELSE IF grant # <<>>
         THEN (IF patent_type = "design"
               THEN DaysBetween(as_of, grant) >= 15 * 365
               ELSE DaysBetween(as_of, grant) >= 20 * 365)
    ELSE FALSE

is_likely_expired(record, as_of_date) ==
    LikelyExpired(_iso_date(as_of_date),
                  _iso_date(Get(record, "filing_date")),
                  _iso_date(Get(record, "patent_date")),
                  Lower(Or(Get(record, "patent_type"), "")))

\* DedupeKey keyed by title and filing date alone
DedupeKeyByTitle(rec) == PyStr(rec.title) \o "|" \o PyStr(rec.filing_date)

\* normalized.get("patent_number") or f"{title}|{filing_date}"
DedupeKey(rec) ==
    Or(rec.patent_number, PyStr(rec.title) \o "|" \o PyStr(rec.filing_date))

\* index of key in the insertion-ordered dict d (a sequence of [key, rec]), 0 if new
KeyIndex(d, key) ==
    IF \E i \in 1..Len(d) : d[i].key = key
    THEN CHOOSE i \in 1..Len(d) : d[i].key = key
    ELSE 0

\* list.append(x) unless x is already in the list
AppendNew(hits, x) == IF x \in SeqToSet(hits) THEN hits ELSE Append(hits, x)

\* the abstract of the later occurrence taken whenever it is not empty
DedupeAtOverwriting(d, pass_name, rec, key, i) ==
    IF i = 0
    THEN Append(d, [key |-> key, rec |-> rec @@ [_retrieval_pass_hits |-> <<pass_name>>]])
    ELSE [d EXCEPT ![i].rec =
            [@ EXCEPT
               !._retrieval_pass_hits = AppendNew(@, pass_name),
               !.abstract    = IF Truthy(rec.abstract) THEN rec.abstract ELSE @,
               !.filing_date = IF ~Truthy(@) /\ Truthy(rec.filing_date)
                               THEN rec.filing_date ELSE @]]

\* the branches of the loop body: i is the position of key in d, 0 if new
DedupeAt(d, pass_name, rec, key, i) ==
    IF i = 0
    THEN Append(d, [key |-> key, rec |-> rec @@ [_retrieval_pass_hits |-> <<pass_name>>]])
    ELSE [d EXCEPT ![i].rec =
            [@ EXCEPT
               !._retrieval_pass_hits = AppendNew(@, pass_name),
               !.abstract    = IF ~Truthy(@) /\ Truthy(rec.abstract)
                               THEN rec.abstract ELSE @,
               !.filing_date = IF ~Truthy(@) /\ Truthy(rec.filing_date)
                               THEN rec.filing_date ELSE @]]

DedupeKeyed(d, pass_name, rec, key) == DedupeAt(d, pass_name, rec, key, KeyIndex(d, key))

DedupeRecord(d, pass_name, rec) == DedupeKeyed(d, pass_name, rec, DedupeKey(rec))

\* the body of the loop over pass_records, for one (pass_name, raw)
DedupeStep(d, pass_name, raw) == DedupeRecord(d, pass_name, normalize_patent_record(raw))

RECURSIVE DedupeLoop(_, _, _)
DedupeLoop(d, prs, i) ==
    IF i > Len(prs) THEN d
    ELSE DedupeLoop(DedupeStep(d, prs[i][1], prs[i][2]), prs, i + 1)

RECURSIVE SortedStrings(_)
\* sorted(set(...)) of strings
SortedStrings(S) ==
    IF S = {} THEN <<>>
    ELSE LET m == CHOOSE x \in S : \A y \in S \ {x} : StrLess(x, y)
         IN  <<m>> \o SortedStrings(S \ {m})

\* list(deduped.values()) with every record's pass hits sorted
DedupedValues(d) ==
    List([i \in 1..Len(d) |->
             [d[i].rec EXCEPT !._retrieval_pass_hits = SortedStrings(SeqToSet(@))]])

\* the pass lists left in the order the passes were added
_dedupe_and_normalize_records_unsorted(prs) ==
    List([i \in 1..Len(DedupeLoop(<<>>, prs, 1)) |-> DedupeLoop(<<>>, prs, 1)[i].rec])

_dedupe_and_normalize_records(prs) == DedupedValues(DedupeLoop(<<>>, prs, 1))

-----------------------------------------------------------------------------
(* scoring_utils.py: coverage and TF-IDF cosine similarity *)

\* term_coverage(query_terms, text_tokens) * 10.0, in ten-thousandths
Coverage10(query, token_set) ==
    IF query = {} THEN 0
    ELSE (Cardinality({ t \in query : t \in token_set }) * 100000) \div Cardinality(query)

term_coverage10(query_terms, text_tokens) ==
    Coverage10({ t \in SeqToSet(query_terms) : t # "" }, SeqToSet(text_tokens))

\* 100 * ln(k), k = 1..16 (math.log)
LnTable == <<0, 69, 110, 139, 161, 179, 195, 208, 220, 230, 240, 248, 256, 264, 271, 277>>

\* build_idf: ln((1 + N) / (1 + df)) + 1 per token, in hundredths
\* the number of documents that hold tok
DocFrequency(corpus_tokens, tok) ==
    Cardinality({ i \in 1..Len(corpus_tokens) : tok \in SeqToSet(corpus_tokens[i]) })

build_idf(corpus_tokens) ==
    [tok \in UNION { SeqToSet(corpus_tokens[i]) : i \in 1..Len(corpus_tokens) } |->
        LnTable[1 + Len(corpus_tokens)] - LnTable[1 + DocFrequency(corpus_tokens, tok)] + 100]

Count(tokens, tok) == Cardinality({ i \in 1..Len(tokens) : tokens[i] = tok })

\* tfidf_vector: (count / size) * idf per token.  The common factor 1 / size
\* of a vector cancels in the cosine, so the vector is held as count * idf.
tfidf_vector(tokens, idf) ==
    [tok \in SeqToSet(tokens) |->
        Count(tokens, tok) * (IF tok \in DOMAIN idf THEN idf[tok] ELSE 100)]

RECURSIVE IsqrtBetween(_, _, _)
IsqrtBetween(n, lo, hi) ==
    IF lo >= hi THEN lo
    ELSE LET mid == (lo + hi + 1) \div 2
         IN  IF mid * mid <= n THEN IsqrtBetween(n, mid, hi) ELSE IsqrtBetween(n, lo, mid - 1)

\* floor(sqrt(n))
Isqrt(n) == IsqrtBetween(n, 0, Min(n, 46340))

\* cosine_similarity(vec_a, vec_b) * 10.0, in ten-thousandths
\* sum(a[t] * b[t] for t in keys)
Dot(a, b, keys) == SumOver([t \in keys |-> a[t] * b[t]], keys)

\* dot / (norm_a * norm_b) * 10.0, in ten-thousandths
CosineOf(dot, norm_a, norm_b) ==
    IF norm_a = 0 \/ norm_b = 0 THEN 0
    ELSE (((dot * 100) \div norm_a) * 1000) \div norm_b

cosine_similarity10(vec_a, vec_b) ==
    IF DOMAIN vec_a = {} \/ DOMAIN vec_b = {} THEN 0
    ELSE CosineOf(Dot(vec_a, vec_b, DOMAIN vec_a \cap DOMAIN vec_b),
                  Isqrt(Dot(vec_a, vec_a, DOMAIN vec_a)),
                  Isqrt(Dot(vec_b, vec_b, DOMAIN vec_b)))

CosineUnderIdf(query_tokens, doc_tokens, idf) ==
    cosine_similarity10(tfidf_vector(query_tokens, idf), tfidf_vector(doc_tokens, idf))

TokensCosine(query_tokens, doc_tokens, corpus_tokens) ==
    CosineUnderIdf(query_tokens, doc_tokens,
                   build_idf(corpus_tokens \o <<query_tokens, doc_tokens>>))

tfidf_cosine_similarity10(query_text, doc_text, corpus_docs) ==
    TokensCosine(tokenize_text(query_text), tokenize_text(doc_text),
                 List([i \in 1..Len(corpus_docs) |-> tokenize_text(corpus_docs[i])]))

-----------------------------------------------------------------------------
(* viability_scoring.py *)

SCORING_VERSION == "v2.0.0"

DEFAULT_VIABILITY_COMPONENT_WEIGHTS ==
    [market_demand |-> 280, build_feasibility |-> 220, competition_headroom |-> 180,
     differentiation_potential |-> 180, commercial_readiness |-> 140]

DEFAULT_OPPORTUNITY_WEIGHTS == [retrieval |-> 350, viability |-> 450, expiration |-> 200]

\* the domains in dict order
MARKET_DOMAINS == <<"healthcare_wearables", "industrial_safety", "environmental_monitoring",
                    "precision_agriculture", "consumer_iot">>

MARKET_DOMAIN_TAXONOMY ==
    [healthcare_wearables |-> {"patient", "vital", "temperature", "heart", "physiological",
                               "biometric", "wearable", "monitoring", "medical"},
     industrial_safety |-> {"gas", "toxic", "hazard", "osha", "industrial", "safety",
                            "detector", "monitor", "compliance"},
     environmental_monitoring |-> {"air", "water", "environment", "quality", "pollution",
                                   "climate", "portable", "sensor"},
     precision_agriculture |-> {"soil", "moisture", "crop", "field", "agriculture",
                                "irrigation", "farm", "ph"},
     consumer_iot |-> {"wireless", "network", "mobile", "app", "connected", "smart", "remote"}]

DEMAND_TERMS == {"automation", "real", "time", "safety", "health", "monitoring",
                 "compliance", "efficiency", "predictive"}

COMPLEXITY_TERMS == {"spectrometry", "chromatography", "calibration", "biochemical",
                     "electrode", "multivariate", "algorithm", "multiplex"}

COMPETITION_TERMS == {"system", "method", "platform", "network", "module", "device"}

DIFFERENTIATION_TERMS == {"portable", "wireless", "integrated", "adaptive", "real", "time",
                          "autonomous", "predictive"}

READINESS_TERMS == {"prototype", "deployment", "production", "manufacturing", "kit",
                    "portable", "apparatus"}

_compose_patent_text(patent) ==
    LET title    == Or(Get(patent, "title"), Or(Get(patent, "patent_title"), ""))
        abstract == Or(Get(patent, "abstract"), Or(Get(patent, "patent_abstract"), ""))
    IN  title \o " " \o abstract

\* max(scores, key=scores.get): the first domain, in dict order, of maximal count
\* the per-domain hit counts of a token set
DomainScores(token_set) ==
    [d \in SeqToSet(MARKET_DOMAINS) |-> Cardinality(MARKET_DOMAIN_TAXONOMY[d] \cap token_set)]

\* the last domain, in dict order, of maximal count
BestDomainLast(scores) ==
    MARKET_DOMAINS[CHOOSE i \in 1..Len(MARKET_DOMAINS) :
                      /\ \A j \in 1..Len(MARKET_DOMAINS) :
                            scores[MARKET_DOMAINS[j]] <= scores[MARKET_DOMAINS[i]]
                      /\ \A j \in (i + 1)..Len(MARKET_DOMAINS) :
                            scores[MARKET_DOMAINS[j]] < scores[MARKET_DOMAINS[i]]]

\* the first domain, in dict order, of maximal count
BestDomain(scores) ==
    MARKET_DOMAINS[CHOOSE i \in 1..Len(MARKET_DOMAINS) :
                      /\ \A j \in 1..Len(MARKET_DOMAINS) :
                            scores[MARKET_DOMAINS[j]] <= scores[MARKET_DOMAINS[i]]
                      /\ \A j \in 1..(i - 1) :
                            scores[MARKET_DOMAINS[j]] < scores[MARKET_DOMAINS[i]]]

DomainOf(scores, best) == <<IF scores[best] = 0 THEN "general_sensors" ELSE best, scores>>

ClassifyScores(scores) == DomainOf(scores, BestDomain(scores))

classify_market_domain(patent) ==
    ClassifyScores(DomainScores(SeqToSet(tokenize_text(_compose_patent_text(patent)))))

\* clamp(baseline + hits * scale), in thousandths
_component_score(tokens, positive_terms, baseline, scale) ==
    clamp(baseline + Cardinality(positive_terms \cap tokens) * scale, 0, 10000)

\* the override left aside
MergeWeightsDefaultsOnly(defaults, override) == defaults

\* the defaults with the recognized keys of the override replaced
MergeWeights(defaults, override) ==
    [k \in DOMAIN defaults |-> IF k \in DOMAIN override THEN override[k] ELSE defaults[k]]

RECURSIVE DigitsOf(_)
DigitsOf(n) == IF n < 10 THEN Char(Digits, n + 1) ELSE DigitsOf(n \div 10) \o Char(Digits, (n % 10) + 1)

\* f"{x:.1f}" of a score in thousandths
Fmt1(x) == LET t == RoundDiv(x, 100) IN DigitsOf(t \div 10) \o "." \o DigitsOf(t % 10)

\* f"{x:.2f}" of a score in thousandths
Fmt2(x) ==
    LET h == RoundDiv(x, 10)
    IN  DigitsOf(h \div 100) \o "." \o DigitsOf((h % 100) \div 10) \o DigitsOf(h % 10)

\* the returned scorecard, from the rounded components
ScorecardOf(parts, domain, used_weights) ==
    [market_domain |-> domain[1],
     domain_hits   |-> domain[2],
     weights       |-> used_weights,
     components    |->
        parts @@ [total |-> RoundDiv(clamp(SumOver([k \in DOMAIN used_weights |->
                                                      parts[k] * used_weights[k]],
                                                   DOMAIN used_weights),
                                           0, 10000000), 1000)],
     summary       |-> "Domain=" \o domain[1] \o "; demand=" \o Fmt1(parts.market_demand)
                        \o ", feasibility=" \o Fmt1(parts.build_feasibility)
                        \o ", headroom=" \o Fmt1(parts.competition_headroom) \o "."]

\* the five components of a token set
ViabilityParts(tokens, assignee_type, expiration_signal) ==
    [market_demand             |-> _component_score(tokens, DEMAND_TERMS, 4500, 800),
     build_feasibility         |->
        clamp(8800 - _component_score(tokens, COMPLEXITY_TERMS, 0, 900), 0, 10000),
     competition_headroom      |->
        clamp(7000 - _component_score(tokens, COMPETITION_TERMS, 0, 700)
                   + (IF assignee_type \in {"4", "5", "14", "15"} THEN 800 ELSE 0),
              0, 10000),
     differentiation_potential |-> _component_score(tokens, DIFFERENTIATION_TERMS, 4200, 700),
     commercial_readiness      |->
        RoundDiv(clamp(_component_score(tokens, READINESS_TERMS, 3800, 600) * 6
                          + expiration_signal * 4, 0, 100000), 10)]

compute_viability_scorecard(patent, weights, as_of_date) ==
    ScorecardOf(ViabilityParts(SeqToSet(tokenize_text(_compose_patent_text(patent))),
                               PyStr(Or(Get(patent, "assignee_type"), "")),
                               expiration_confidence_score(patent, as_of_date)),
                classify_market_domain(patent),
                MergeWeights(DEFAULT_VIABILITY_COMPONENT_WEIGHTS, weights))

Blend(retrieval_total, viability_total, expiration_confidence, used_weights) ==
    RoundDiv(clamp(retrieval_total * used_weights.retrieval
                      + viability_total * used_weights.viability
                      + expiration_confidence * used_weights.expiration,
                   0, 10000000), 1000)

compute_opportunity_score_v2(retrieval_total, viability_total, expiration_confidence, scoring_weights) ==
    Blend(retrieval_total, viability_total, expiration_confidence,
          MergeWeights(DEFAULT_OPPORTUNITY_WEIGHTS, scoring_weights))

-----------------------------------------------------------------------------
(* patent_discovery.py: keyword expansion, reranking, viability scoring *)

RANKING_VERSION == "v2.0.0"

DEFAULT_RETRIEVAL_SCORE_WEIGHTS ==
    [title_exact_match |-> 240, query_coverage |-> 200, semantic_similarity |-> 300,
     expiration_confidence |-> 160, pass_diversity |-> 100]

KEYWORD_EXPANSION_MAP ==
    [portable    |-> <<"mobile", "handheld", "wearable", "compact">>,
     sensor      |-> <<"detector", "monitor", "transducer", "probe">>,
     wireless    |-> <<"rf", "radio", "remote", "bluetooth">>,
     vital       |-> <<"physiological", "biometric", "health">>,
     water       |-> <<"aqueous", "h2o", "liquid">>,
     gas         |-> <<"vapor", "fume", "air">>,
     soil        |-> <<"agriculture", "crop", "field">>,
     temperature |-> <<"thermal", "heat">>,
     monitor     |-> <<"tracking", "diagnostic", "measurement">>,
     device      |-> <<"apparatus", "instrument", "system">>]

\* _add(term) of expand_keywords_for_v2
AppendClean(expanded, clean) ==
    IF clean = "" \/ clean \in SeqToSet(expanded) THEN expanded ELSE Append(expanded, clean)

ExpandAdd(expanded, term) == AppendClean(expanded, Lower(Strip(term)))

\* only the first of the synonyms added
ExpandAddFirst(expanded, terms, i) ==
    IF terms = <<>> THEN expanded ELSE ExpandAdd(expanded, terms[1])

RECURSIVE ExpandAddAll(_, _, _)
ExpandAddAll(expanded, terms, i) ==
    IF i > Len(terms) THEN expanded
    ELSE ExpandAddAll(ExpandAdd(expanded, terms[i]), terms, i + 1)

RECURSIVE ExpandTokens(_, _, _)
\* for token in tokenize_text(base): _add(token); then its synonyms in order
ExpandTokens(expanded, tokens, i) ==
    IF i > Len(tokens) THEN expanded
    ELSE ExpandTokens(ExpandAddAll(ExpandAdd(expanded, tokens[i]),
                                   IF tokens[i] \in DOMAIN KEYWORD_EXPANSION_MAP
                                   THEN KEYWORD_EXPANSION_MAP[tokens[i]] ELSE <<>>,
                                   1),
                      tokens, i + 1)

RECURSIVE ExpandLoop(_, _, _, _)

\* the end of the loop body: stop at the cap or go on with the next keyword
ExpandNext(next, keywords, i, max_expanded_keywords) ==
    IF Len(next) >= max_expanded_keywords THEN next
    ELSE ExpandLoop(next, keywords, i + 1, max_expanded_keywords)

\* the loop body for the cleaned keyword base
ExpandBase(expanded, base, keywords, i, max_expanded_keywords) ==
    IF base = "" THEN ExpandLoop(expanded, keywords, i + 1, max_expanded_keywords)
    ELSE ExpandNext(ExpandTokens(ExpandAdd(expanded, base), tokenize_text(base), 1),
                    keywords, i, max_expanded_keywords)

ExpandLoop(expanded, keywords, i, max_expanded_keywords) ==
    IF i > Len(keywords) THEN expanded
    ELSE ExpandBase(expanded, Lower(Strip(Or(keywords[i], ""))), keywords, i,
                    max_expanded_keywords)

\* the list left whole
PrefixUncut(items, n) == items

\* items[:n]; a negative n counts from the end of the list
Prefix(items, n) ==
    SubSeq(items, 1, IF n < 0 THEN Max(0, Len(items) + n) ELSE Min(Len(items), n))

expand_keywords_for_v2(keywords, max_expanded_keywords) ==
    Prefix(ExpandLoop(<<>>, keywords, 1, max_expanded_keywords), max_expanded_keywords)

RECURSIVE Join(_, _)
\* sep.join(parts)
Join(parts, sep) ==
    IF parts = <<>> THEN ""
    ELSE IF Len(parts) = 1 THEN parts[1]
    ELSE parts[1] \o sep \o Join(Tail(parts), sep)

\* patent.get("_retrieval_pass_hits", [])
PassHits(patent) ==
    IF "_retrieval_pass_hits" \in DOMAIN patent THEN patent._retrieval_pass_hits ELSE <<>>

\* a > b on Python tuples whose first item is a number and whose others are strings
RECURSIVE TupleGreaterFrom(_, _, _)
TupleGreaterFrom(a, b, i) ==
    IF i > Len(a) THEN FALSE
    ELSE IF a[i] = b[i] THEN TupleGreaterFrom(a, b, i + 1)
    ELSE IF i = 1 THEN a[i] > b[i] ELSE StrLess(b[i], a[i])

TupleGreater(a, b) == TupleGreaterFrom(a, b, 1)

RECURSIVE InsertDescending(_, _, _, _)
\* place item (with its key) behind every element whose key is >= its key
InsertDescending(sorted, keys, item, key) ==
    IF sorted = <<>> THEN <<item>>
    ELSE IF TupleGreater(key, keys[1]) THEN <<item>> \o sorted
    ELSE <<sorted[1]>> \o InsertDescending(Tail(sorted), Tail(keys), item, key)

RECURSIVE SortDescendingFrom(_, _, _, _)
SortDescendingFrom(sorted, items, keys, i) ==
    IF i > Len(items) THEN sorted
    ELSE SortDescendingFrom(
            InsertDescending(sorted, [j \in 1..Len(sorted) |-> keys[sorted[j]]], i, keys[i]),
            items, keys, i + 1)

\* list.sort(key=..., reverse=True): descending by key, equal keys keep
\* their order (the sort is stable); keys[i] is the key of items[i]
Permuted(items, order) == List([j \in 1..Len(items) |-> items[order[j]]])

SortDescending(items, keys) == Permuted(items, SortDescendingFrom(<<>>, items, keys, 1))

PASS_NAMES == <<"strict_intent", "expanded_synonyms", "title_priority", "broad_fallback">>

\* a sort key without the tie-breaks: the total alone
RerankKeyTotalOnly(item) ==
    <<IF "retrieval_scorecard" \in DOMAIN item THEN item.retrieval_scorecard.total ELSE 0>>

\* the sort key of rerank_patent_candidates_v2
RerankKey(item) ==
    <<IF "retrieval_scorecard" \in DOMAIN item THEN item.retrieval_scorecard.total ELSE 0,
      Or(Get(item, "patent_date"), ""),
      Or(Get(item, "patent_number"), "")>>

\* the candidate with its scorecard, from the unrounded sub-scores
RetrievalScored(patent, title_exact_match, coverage, semantic_similarity, expiration_conf, pass_hits, pass_diversity, weights) ==
    [retrieval_scorecard |->
        [title_exact_match     |-> RoundDiv(title_exact_match, 10),
         query_coverage        |-> RoundDiv(coverage, 10),
         semantic_similarity   |-> RoundDiv(semantic_similarity, 10),
         expiration_confidence |-> expiration_conf,
         pass_diversity        |-> RoundDiv(pass_diversity, 10),
         weights               |-> weights,
         total                 |->
            RoundDiv(clamp(title_exact_match * weights.title_exact_match
                              + coverage * weights.query_coverage
                              + semantic_similarity * weights.semantic_similarity
                              + (expiration_conf * 10) * weights.expiration_confidence
                              + pass_diversity * weights.pass_diversity,
                           0, 100000000), 10000)],
     _retrieval_pass_hits |-> pass_hits] @@ patent

\* len(pass_hits) / 4.0 * 10.0, clamped
WithDiversity(patent, title_exact_match, coverage, semantic_similarity, expiration_conf, pass_hits, weights) ==
    RetrievalScored(patent, title_exact_match, coverage, semantic_similarity, expiration_conf,
                    pass_hits, clamp((Len(pass_hits) * 100000) \div 4, 0, 100000), weights)

\* the number of base keywords the lower-cased title holds
ExactHits(base_keywords, title_lower) ==
    Cardinality({ i \in 1..Len(base_keywords) :
                     base_keywords[i] # "" /\ Contains(title_lower, base_keywords[i]) })

\* the sub-scores of a candidate whose text is doc_text
ScoreText(patent, title_lower, doc_text, base_keywords, query_terms, query_text, corpus_docs, weights, now) ==
    WithDiversity(
        patent,
        clamp((ExactHits(base_keywords, title_lower) * 100000) \div Max(1, Len(base_keywords)),
              0, 100000),
        clamp(term_coverage10(query_terms, tokenize_text(doc_text)), 0, 100000),
        clamp(tfidf_cosine_similarity10(query_text, doc_text, corpus_docs), 0, 100000),
        expiration_confidence_score(patent, now),
        SelectSeq(PassHits(patent),
                  LAMBDA hit : hit \in SeqToSet(PASS_NAMES) \cup {"single_pass"}),
        weights)

ScoreTitled(patent, title, abstract, base_keywords, query_terms, query_text, corpus_docs, weights, now) ==
    ScoreText(patent, Lower(title), title \o " " \o abstract, base_keywords, query_terms,
              query_text, corpus_docs, weights, now)

\* the loop body of rerank_patent_candidates_v2 for one candidate
RerankOne(patent, base_keywords, query_terms, query_text, corpus_docs, weights, now) ==
    ScoreTitled(patent, PyStr(Or(Get(patent, "title"), "")),
                PyStr(Or(Get(patent, "abstract"), "")), base_keywords, query_terms,
                query_text, corpus_docs, weights, now)

\* ranked.sort(key=..., reverse=True)
SortRanked(unsorted) ==
    SortDescending(unsorted, List([i \in 1..Len(unsorted) |-> RerankKey(unsorted[i])]))

\* the scoring loop and the sort
RerankLoop(candidates, base_keywords, query_terms, query_text, corpus_docs, weights, as_of_date) ==
    SortRanked(List([i \in 1..Len(candidates) |->
        RerankOne(candidates[i], base_keywords, query_terms, query_text, corpus_docs,
                  weights, as_of_date)]))

\* what the loop uses, computed from the cleaned keywords
RerankWith(candidates, base_keywords, max_expanded, score_weights, as_of_date) ==
    RerankLoop(candidates, base_keywords,
               tokenize_text(Join(base_keywords, " ")),
               Join(expand_keywords_for_v2(base_keywords, max_expanded), " "),
               List([j \in 1..Len(candidates) |->
                        GetStr(candidates[j], "title") \o " "
                           \o GetStr(candidates[j], "abstract")]),
               MergeWeights(DEFAULT_RETRIEVAL_SCORE_WEIGHTS, score_weights),
               as_of_date)

\* [str(k).lower().strip() for k in keywords if str(k).strip()]
BaseKeywords(stripped) == List([i \in 1..Len(stripped) |-> Strip(Lower(stripped[i]))])

rerank_patent_candidates_v2(candidates, search_config, as_of_date) ==
    IF candidates = <<>> THEN <<>>
    ELSE RerankWith(candidates,
                    BaseKeywords(SelectSeq(search_config.keywords, LAMBDA k : Strip(k) # "")),
                    IF search_config.retrieval_v2.max_expanded_keywords = 0 THEN 24
                    ELSE search_config.retrieval_v2.max_expanded_keywords,
                    search_config.retrieval_v2.score_weights,
                    as_of_date)

\* the enriched row of _apply_viability_scoring
Enriched(patent, viability, retrieval_score, expiration_score, opportunity, hits) ==
    [viability_scorecard  |-> viability.components,
     market_domain        |-> viability.market_domain,
     opportunity_score_v2 |-> opportunity,
     opportunity_score    |-> opportunity,
     scoring_version      |-> SCORING_VERSION,
     explanations         |->
        [retrieval   |-> "Retrieval based on title match, keyword coverage, semantic similarity, and multi-pass agreement ("
                           \o (IF hits = "" THEN "single pass" ELSE hits) \o ").",
         viability   |-> viability.summary,
         opportunity |-> "Blended score from retrieval=" \o Fmt2(retrieval_score)
                           \o ", viability=" \o Fmt2(viability.components.total)
                           \o ", expiration=" \o Fmt2(expiration_score) \o "."],
     score_components     |-> viability.components] @@ patent

\* the opportunity score written into the total of the retrieval scorecard too
BlendedIntoRetrieval(patent, viability, retrieval_score, expiration_score, scoring_weights) ==
    Enriched(IF "retrieval_scorecard" \in DOMAIN patent
             THEN [patent EXCEPT !.retrieval_scorecard.total =
                      compute_opportunity_score_v2(retrieval_score,
                                                   viability.components.total,
                                                   expiration_score, scoring_weights)]
             ELSE patent,
             viability, retrieval_score, expiration_score,
             compute_opportunity_score_v2(retrieval_score, viability.components.total,
                                          expiration_score, scoring_weights),
             Join(PassHits(patent), ", "))

Blended(patent, viability, retrieval_score, expiration_score, scoring_weights) ==
    Enriched(patent, viability, retrieval_score, expiration_score,
             compute_opportunity_score_v2(retrieval_score, viability.components.total,
                                          expiration_score, scoring_weights),
             Join(PassHits(patent), ", "))

\* the loop body of _apply_viability_scoring for one patent
ViabilityOne(patent, search_config, as_of_date) ==
    Blended(patent,
            compute_viability_scorecard(patent, search_config.viability_v2.weights, as_of_date),
            IF "retrieval_scorecard" \in DOMAIN patent
            THEN patent.retrieval_scorecard.total ELSE 0,
            expiration_confidence_score(patent, as_of_date),
            search_config.scoring_weights)

\* row.get("opportunity_score_v2", 0.0)
OpportunityOf(row) ==
    IF "opportunity_score_v2" \in DOMAIN row THEN row.opportunity_score_v2 ELSE 0

\* enriched.sort(key=..., reverse=True)
SortEnriched(enriched) ==
    SortDescending(enriched,
                   List([i \in 1..Len(enriched) |-> <<OpportunityOf(enriched[i])>>]))

_apply_viability_scoring(patents, search_config, as_of_date) ==
    IF patents = <<>> THEN <<>>
    ELSE SortEnriched(List([i \in 1..Len(patents) |->
                               ViabilityOne(patents[i], search_config, as_of_date)]))

-----------------------------------------------------------------------------
(* inputs: the records the search service holds, the configuration *)

MaxNum     == 2   \* largest num_results
MaxPerPage == 2   \* largest per_page
MaxRetries == 2   \* largest max_retries
MaxPairs   == 3   \* longest pass_records list drawn directly
MaxScrape  == 3   \* most items the legacy scrape finds
MaxLevel   == 2   \* integrated scores are drawn from 0..MaxLevel

\* a record as the service's /api/v1/patent/ endpoint returns it
RawRecord(id, title, abstract, granted, type, filed, assignee) ==
    (IF id = None THEN <<>> ELSE [patent_id |-> id])
    @@ (IF filed = None THEN <<>> ELSE [application |-> <<[filing_date |-> filed]>>])
    @@ (IF assignee = None THEN <<>> ELSE [assignees |-> <<[assignee_type |-> assignee]>>])
    @@ [patent_title |-> title, patent_abstract |-> abstract, patent_date |-> granted,
        patent_type |-> type]

\* expired utility patent of an individual
RawA == RawRecord("US1", "Gas sensor", "", "2001-03-04", "utility", "1999-05-06", "4")
\* the same text and dates under another identifier
RawB == RawRecord("US2", "Gas sensor", "", "2001-03-04", "utility", "1999-05-06", "4")
\* no identifier, no text, no filing date
RawC == RawRecord(None, "", "", "2001-03-04", None, None, None)
\* an identifier that reads like a title|filing_date key, a title without
\* letters, a filing date that does not parse
RawD == RawRecord("|None", "42 !?", "", "2001-03-04", "utility", "1999-13-40", None)
\* no identifier, nine demand terms, a grant date after today, a design patent
RawE == RawRecord(None, "Real time safety", "health monitoring compliance efficiency automation predictive",
                  "2030-01-01", "design", None, "2")

Catalogue == <<RawA, RawB, RawC, RawD, RawE>>

Todays == {"2026-01-15"}

\* weight overrides of a configuration: none, or values above 1, below 0
\* and under keys the scorers do not know
NoOverride == [retrieval |-> <<>>, viability |-> <<>>, opportunity |-> <<>>]

WildOverride ==
    [retrieval   |-> [semantic_similarity |-> 5000, pass_diversity |-> -500, novelty |-> 900],
     viability   |-> [market_demand |-> 3000, build_feasibility |-> -1000, novelty |-> 900],
     opportunity |-> [retrieval |-> 2000, expiration |-> -300, novelty |-> 900]]

Overrides == {NoOverride, WildOverride}

\* _deep_merge_dict(DEFAULT_PATENT_SEARCH_CONFIG[section], override) on weights
DeepMerge(defaults, override) ==
    [k \in DOMAIN defaults \cup DOMAIN override |->
        IF k \in DOMAIN override THEN override[k] ELSE defaults[k]]

\* the search_config _resolve_patent_search_config returns for a structured
\* patent_search configuration
_resolve_patent_search_config(num_results, per_page, max_retries, enable_v2_pipeline, require_likely_expired, allow_legacy_scrape_fallback, override) ==
    [keywords      |-> <<"sensor">>,
     num_results   |-> Max(1, IF num_results = 0 THEN 100 ELSE num_results),
     per_page      |-> Max(1, Min(1000, IF per_page = 0 THEN 100 ELSE per_page)),
     max_retries   |-> IF max_retries = 0 THEN 3 ELSE max_retries,
     enable_v2_pipeline           |-> enable_v2_pipeline,
     require_likely_expired       |-> require_likely_expired,
     allow_legacy_scrape_fallback |-> allow_legacy_scrape_fallback,
     retrieval_v2  |-> [max_expanded_keywords |-> 24,
                        score_weights |-> DeepMerge(DEFAULT_RETRIEVAL_SCORE_WEIGHTS,
                                                    override.retrieval)],
     viability_v2  |-> [weights |-> DeepMerge(DEFAULT_VIABILITY_COMPONENT_WEIGHTS,
                                              override.viability)],
     scoring_weights |-> DeepMerge(DEFAULT_OPPORTUNITY_WEIGHTS, override.opportunity)]

-----------------------------------------------------------------------------
(* patent_discovery.py: diagnostics, and discover_patents after retrieval *)

\* the diagnostics bundle (query_summary, a copy of configuration values, is
\* not held); http_status is <<>> for None and <<status>> for an integer
_base_diagnostics(search_config, warnings_list) ==
    [provider        |-> "patentsview_patentsearch",
     status          |-> "pending",
     http_status     |-> <<>>,
     raw_count       |-> 0,
     filtered_count  |-> 0,
     pass_counts     |-> <<>>,
     deduped_count   |-> 0,
     ranking_version |-> RANKING_VERSION,
     scoring_version |-> SCORING_VERSION,
     errors          |-> <<>>,
     next_actions    |-> <<>>,
     warnings        |-> warnings_list]

NoError == [code |-> None, message |-> None]

NoFetch == [requested |-> 0, per_page |-> 0, max_retries |-> 0, page |-> 0, attempt |-> 0,
            all_records |-> <<>>, total_hits |-> <<>>, diagnostics |-> <<>>]

\* no scoring or valuation function has been called
NoCall == <<>>

\* the module-level weight tables as the modules define them
DefaultTables ==
    [retrieval   |-> DEFAULT_RETRIEVAL_SCORE_WEIGHTS,
     viability   |-> DEFAULT_VIABILITY_COMPONENT_WEIGHTS,
     opportunity |-> DEFAULT_OPPORTUNITY_WEIGHTS]

NoResult == [ok |-> FALSE, records |-> <<>>, diagnostics |-> <<>>, code |-> None,
             message |-> None]

\* discover_patents, lines 955-956
Dedupe ==
    /\ pc = "dedupe"
    /\ normalized' = _dedupe_and_normalize_records(pass_records)
    /\ diagnostics' = [diagnostics EXCEPT !.deduped_count = Len(normalized')]
    /\ pc' = "filter"
    /\ UNCHANGED <<analyzer, stack, framework, locals, history, call, ret, tables, cfg, today, index, passIdx, fetch, requests, pages, fetch_result,
                   pass_records, pass_counts, filtered, ranked, scored, results, error,
                   analysis>>

\* the empty list let through
NoneRemainIgnored(candidates) == FALSE

\* if not filtered
NoneRemain(candidates) == candidates = <<>>

\* discover_patents, lines 999-1020: the likely-expired filter and the
\* zero_results failure
Filter ==
    /\ pc = "filter"
    /\ filtered' = IF cfg.require_likely_expired
                   THEN SelectSeq(normalized, LAMBDA r : is_likely_expired(r, today))
                   ELSE normalized
    /\ IF NoneRemain(filtered')
       THEN /\ diagnostics' =
                 [diagnostics EXCEPT
                    !.raw_count = Len(normalized),
                    !.filtered_count = 0,
                    !.status = "failed",
                    !.errors = Append(@, "No patents remained after discovery and expiration filtering."),
                    !.next_actions = Append(@, "Broaden keywords, filing range, or disable require_likely_expired for debugging.")]
            /\ error' = [code |-> "zero_results",
                         message |-> "No patents found for the configured search."]
            /\ pc' = "raised"
       ELSE /\ diagnostics' = [diagnostics EXCEPT !.raw_count = Len(normalized),
                                                  !.filtered_count = Len(filtered')]
            /\ error' = error
            /\ pc' = "rerank"
    /\ UNCHANGED <<analyzer, stack, framework, locals, history, call, ret, tables, cfg, today, index, passIdx, fetch, requests, pages, fetch_result,
                   pass_records, pass_counts, normalized, ranked, scored, results, analysis>>

\* discover_patents, line 1022
Rerank ==
    /\ pc = "rerank"
    /\ ranked' = rerank_patent_candidates_v2(filtered, cfg, today)
    /\ pc' = "score"
    /\ UNCHANGED <<analyzer, stack, framework, locals, history, call, ret, tables, cfg, today, index, passIdx, fetch, requests, pages, fetch_result,
                   pass_records, pass_counts, diagnostics, normalized, filtered, scored,
                   results, error, analysis>>

\* discover_patents, line 1023
ApplyViability ==
    /\ pc = "score"
    /\ scored' = _apply_viability_scoring(ranked, cfg, today)
    /\ pc' = "limit"
    /\ UNCHANGED <<analyzer, stack, framework, locals, history, call, ret, tables, cfg, today, index, passIdx, fetch, requests, pages, fetch_result,
                   pass_records, pass_counts, diagnostics, normalized, filtered, ranked,
                   results, error, analysis>>

\* discover_patents, lines 1025-1031
Return ==
    /\ pc = "limit"
    /\ results' = Prefix(scored, IF cfg.num_results = 0 THEN Len(scored)
                                 ELSE cfg.num_results)
    /\ diagnostics' = [diagnostics EXCEPT
                          !.filtered_count = Len(results'),
                          !.status = IF Truthy(@) THEN @ ELSE "ok"]
    /\ pc' = "returned"
    /\ UNCHANGED <<analyzer, stack, framework, locals, history, call, ret, tables, cfg, today, index, passIdx, fetch, requests, pages, fetch_result,
                   pass_records, pass_counts, normalized, filtered, ranked, scored, error,
                   analysis>>

-----------------------------------------------------------------------------
(* patent_analysis_framework.py: analyze_patent_dataset *)

\* key=lambda r: r.integrated_score
IntegratedKey(result) == <<result.integrated_score>>

\* analyze_patent_dataset(patents).  The analyses that produce
\* integrated_score (classification, technical, manufacturing, financial and
\* strategic scoring) are not modelled: level[i] stands for the score they
\* give patents[i].
\* for idx, result in enumerate(self.results, 1): result.ranking_position = idx
Positioned(sorted) ==
    List([idx \in 1..Len(sorted) |-> [sorted[idx] EXCEPT !.ranking_position = idx]])

\* the results left in the order they were appended
SortResultsSkipped(appended) == appended

\* self.results.sort(key=..., reverse=True)
SortResults(appended) ==
    SortDescending(appended, List([i \in 1..Len(appended) |-> IntegratedKey(appended[i])]))

analyze_patent_dataset(patents, level) ==
    Positioned(SortResults(List([i \in 1..Len(patents) |->
        [patent_number    |-> IF "patent_number" \in DOMAIN patents[i]
                              THEN patents[i].patent_number
                              ELSE "UNKNOWN_" \o DigitsOf(i),
         title            |-> GetStr(patents[i], "title"),
         integrated_score |-> level[i],
         ranking_position |-> 0]])))

AnalyzeDataset ==
    /\ pc = "returned"
    /\ \E level \in [1..Len(results) -> 0..MaxLevel] :
          analysis' = analyze_patent_dataset(results, level)
    /\ pc' = "analyzed"
    /\ UNCHANGED <<analyzer, stack, framework, locals, history, call, ret, tables, cfg, today, index, passIdx, fetch, requests, pages, fetch_result,
                   pass_records, pass_counts, diagnostics, normalized, filtered, ranked,
                   scored, results, error>>

-----------------------------------------------------------------------------
(* the pipeline after retrieval, on every short list of pass records *)

\* the passes the drawn lists come from
DrawnPasses == 1..2

\* lists of at most MaxPairs (pass, catalogue entry) pairs, in pass order as
\* _discover_raw_records_v2 builds them
DrawnLists ==
    UNION { { s \in [1..n -> DrawnPasses \X (1..Len(Catalogue))] :
                \A i \in 1..(n - 1) : s[i][1] <= s[i + 1][1] } : n \in 0..MaxPairs }

\* the state in which _discover_raw_records_v2 returned the list s
InitPipeline ==
    /\ pc = "dedupe"
    /\ \E require \in BOOLEAN, override \in Overrides :
          cfg = _resolve_patent_search_config(MaxPairs, MaxPerPage, MaxRetries, TRUE,
                                              require, FALSE, override)
    /\ today \in Todays
    /\ index = Catalogue
    /\ passIdx = Len(PASS_NAMES)
    /\ fetch = NoFetch
    /\ requests = <<>>
    /\ pages = <<>>
    /\ fetch_result = NoResult
    /\ \E s \in DrawnLists :
          pass_records = [i \in 1..Len(s) |-> <<PASS_NAMES[s[i][1]], Catalogue[s[i][2]]>>]
    /\ pass_counts = [i \in 1..Len(PASS_NAMES) |->
                         Cardinality({ j \in 1..Len(pass_records) :
                                          pass_records[j][1] = PASS_NAMES[i] })]
    /\ diagnostics = [_base_diagnostics(cfg, <<>>) EXCEPT
                         !.http_status = <<200>>,
                         !.pass_counts = pass_counts,
                         !.raw_count = Len(pass_records),
                         !.status = "ok"]
    /\ normalized = <<>>
    /\ filtered = <<>>
    /\ ranked = <<>>
    /\ scored = <<>>
    /\ results = <<>>
    /\ error = NoError
    /\ analysis = <<>>
    /\ call = NoCall
    /\ ret = None
    /\ tables = DefaultTables
    /\ framework = NewFramework
    /\ locals = NoLocals
    /\ history = <<>>
    /\ stack = NoStack
    /\ analyzer = NoAnalyzer

NextPipeline ==
    \/ Dedupe
    \/ Filter
    \/ Rerank
    \/ ApplyViability
    \/ Return
    \/ AnalyzeDataset

SpecPipeline == InitPipeline /\ [][NextPipeline]_vars

-----------------------------------------------------------------------------
(* discover_patents run a second time on the pass records of the first run *)

\* the days on which the second run takes place: the day of the first run,
\* and a day on which the design patent granted in 2030 has aged 15 years
RepeatDays == Todays \cup {"2045-06-01"}

\* discover_patents, lines 1001-1004
LikelyExpiredOnly(normalized_records, search_config, as_of_date) ==
    IF search_config.require_likely_expired
    THEN SelectSeq(normalized_records, LAMBDA r : is_likely_expired(r, as_of_date))
    ELSE normalized_records

\* discover_patents, lines 1022-1026
Limited(candidates, search_config, as_of_date) ==
    Prefix(_apply_viability_scoring(
               rerank_patent_candidates_v2(candidates, search_config, as_of_date),
               search_config, as_of_date),
           IF search_config.num_results = 0 THEN Len(candidates)
           ELSE search_config.num_results)

\* what the run gives from the filtered candidates on
Outcome(candidates, search_config, as_of_date) ==
    IF NoneRemain(candidates)
    THEN [code |-> "zero_results", records |-> <<>>]
    ELSE [code |-> None, records |-> Limited(candidates, search_config, as_of_date)]

\* the run with the expiration filter left out
DiscoverFromUnfiltered(records, search_config, as_of_date) ==
    Outcome(_dedupe_and_normalize_records(records), search_config, as_of_date)

\* discover_patents from line 955 on: what it returns or raises for the pass
\* records on the day today = date.today() gives
DiscoverFrom(records, search_config, as_of_date) ==
    Outcome(LikelyExpiredOnly(_dedupe_and_normalize_records(records), search_config,
                              as_of_date),
            search_config, as_of_date)

\* discover_patents called again with the same configuration, the passes
\* giving the same records, on a day d
DiscoverAgain ==
    /\ pc \in {"returned", "raised"}
    /\ \E d \in RepeatDays :
          /\ call' = [fn |-> "discover_patents", today |-> d]
          /\ ret' = DiscoverFrom(pass_records, cfg, d)
    /\ pc' = "repeated"
    /\ UNCHANGED <<analyzer, stack, framework, locals, history, tables, cfg, today, index, passIdx, fetch,
                   requests, pages, fetch_result, pass_records, pass_counts, diagnostics,
                   normalized, filtered, ranked, scored, results, error, analysis>>

NextRepeat ==
    \/ Dedupe
    \/ Filter
    \/ Rerank
    \/ ApplyViability
    \/ Return
    \/ DiscoverAgain

SpecRepeat == InitPipeline /\ [][NextRepeat]_vars

-----------------------------------------------------------------------------
(* deduplication of records that differ under one dedupe key *)

\* US1 as one pass returns it: no abstract, no filing date
VariantBare == RawRecord("US1", "Gas sensor", "", "2001-03-04", "utility", None, "4")
\* US1 with an abstract, a filing date, another title, grant date and assignee
VariantFull == RawRecord("US1", "Gas detector", "first", "2002-04-05", "design", "1999-05-06", "2")
\* US1 with another abstract and another filing date
VariantLate == RawRecord("US1", "Gas sensor", "second", "2001-03-04", "utility", "1998-01-01", "4")
\* no identifier, no abstract: its key is the title and the missing filing date
VariantUnnumbered == RawRecord(None, "Gas sensor", "", "2001-03-04", "utility", None, None)
\* the same key, with an abstract and another grant date
VariantUnnumberedFull == RawRecord(None, "Gas sensor", "third", "2003-01-01", "utility", None, "2")

Variants ==
    <<VariantBare, VariantFull, VariantLate, VariantUnnumbered, VariantUnnumberedFull>>

\* lists of at most MaxPairs (pass, variant) pairs, in pass order
VariantLists ==
    UNION { { s \in [1..n -> DrawnPasses \X (1..Len(Variants))] :
                \A i \in 1..(n - 1) : s[i][1] <= s[i + 1][1] } : n \in 0..MaxPairs }

\* the state in which _discover_raw_records_v2 returned the pass records prs
\* under a configuration with default weights
AfterRetrieval(prs, require) ==
    /\ pc = "dedupe"
    /\ cfg = _resolve_patent_search_config(MaxPairs, MaxPerPage, MaxRetries, TRUE,
                                           require, FALSE, NoOverride)
    /\ today \in Todays
    /\ index = Variants
    /\ passIdx = Len(PASS_NAMES)
    /\ fetch = NoFetch
    /\ requests = <<>>
    /\ pages = <<>>
    /\ fetch_result = NoResult
    /\ pass_records = prs
    /\ pass_counts = [i \in 1..Len(PASS_NAMES) |->
                         Cardinality({ j \in 1..Len(prs) : prs[j][1] = PASS_NAMES[i] })]
    /\ diagnostics = [_base_diagnostics(cfg, <<>>) EXCEPT
                         !.http_status = <<200>>,
                         !.pass_counts = pass_counts,
                         !.raw_count = Len(prs),
                         !.status = "ok"]
    /\ normalized = <<>>
    /\ filtered = <<>>
    /\ ranked = <<>>
    /\ scored = <<>>
    /\ results = <<>>
    /\ error = NoError
    /\ analysis = <<>>
    /\ call = NoCall
    /\ ret = None
    /\ tables = DefaultTables
    /\ framework = NewFramework
    /\ locals = NoLocals
    /\ history = <<>>
    /\ stack = NoStack
    /\ analyzer = NoAnalyzer

\* _discover_raw_records_v2 returned a list of variants
InitMerge ==
    \E s \in VariantLists, require \in BOOLEAN :
        AfterRetrieval([i \in 1..Len(s) |-> <<PASS_NAMES[s[i][1]], Variants[s[i][2]]>>],
                       require)

NextMerge ==
    \/ Dedupe
    \/ Filter

SpecMerge == InitMerge /\ [][NextMerge]_vars

\* what one pass returns: nothing, US1 once or twice, US2, or both in either
\* order
PassHauls == {<<>>, <<RawA>>, <<RawA, RawA>>, <<RawB>>, <<RawA, RawB>>, <<RawB, RawA>>}

\* the (pass_name, raw) pairs of one pass
Tagged(pass_name, haul) == [i \in 1..Len(haul) |-> <<pass_name, haul[i]>>]

\* _discover_raw_records_v2 returned what the four passes found
InitPasses ==
    \E hauls \in [1..Len(PASS_NAMES) -> PassHauls] :
        AfterRetrieval(Tagged(PASS_NAMES[1], hauls[1]) \o Tagged(PASS_NAMES[2], hauls[2])
                          \o Tagged(PASS_NAMES[3], hauls[3])
                          \o Tagged(PASS_NAMES[4], hauls[4]),
                       TRUE)

NextPasses ==
    \/ Dedupe
    \/ Filter
    \/ Rerank

SpecPasses == InitPasses /\ [][NextPasses]_vars

-----------------------------------------------------------------------------
(* patent_discovery.py: fetch_patents_patentsview, one session.post at a time *)

\* the variables the steps after retrieval write
tailVars == <<normalized, filtered, ranked, scored, results, analysis>>

\* name and num_results of each pass of build_retrieval_passes (the keyword
\* fields of a pass shape only the request payload, which is not modelled)
build_retrieval_passes(search_config) ==
    <<[name |-> "strict_intent",     num_results |-> search_config.num_results],
      [name |-> "expanded_synonyms", num_results |-> search_config.num_results],
      [name |-> "title_priority",    num_results |-> Max(1, search_config.num_results \div 2)],
      [name |-> "broad_fallback",    num_results |-> search_config.num_results]>>

\* the name of the pass the running fetch serves
PassName == IF passIdx = 0 THEN "single_pass" ELSE PASS_NAMES[passIdx]

\* the num_results of the configuration the running fetch is given
PassRequested ==
    IF passIdx = 0 THEN cfg.num_results
    ELSE build_retrieval_passes(cfg)[passIdx].num_results

\* the locals of fetch_patents_patentsview before its first request
FetchStart(num_results) ==
    [requested   |-> IF num_results = 0 THEN 100 ELSE num_results,
     per_page    |-> Max(1, Min(1000, IF cfg.per_page = 0 THEN 100 ELSE cfg.per_page)),
     max_retries |-> Max(1, IF cfg.max_retries = 0 THEN 3 ELSE cfg.max_retries),
     page        |-> 1,
     attempt     |-> 1,
     all_records |-> <<>>,
     total_hits  |-> <<>>,
     diagnostics |-> _base_diagnostics(cfg, <<>>)]

\* the next action alone, status and errors left as they were
FailedSilently(diag, error_text, next_action) ==
    [diag EXCEPT !.next_actions = Append(@, next_action)]

\* diagnostics["status"] = "failed" with an error and a next action
Failed(diag, error_text, next_action) ==
    [diag EXCEPT !.status = "failed",
                 !.errors = Append(@, error_text),
                 !.next_actions = Append(@, next_action)]

\* raise PatentDiscoveryError(code, message, diagnostics)
Raised(code, message, diag) ==
    [ok |-> FALSE, records |-> <<>>, diagnostics |-> diag, code |-> code,
     message |-> message]

\* return limited, diagnostics
Returned(records, diag) ==
    [ok |-> TRUE, records |-> records, diagnostics |-> diag, code |-> None,
     message |-> None]

\* fetch_patents_patentsview up to its first request: the API key is in the
\* environment or it is not
FetchBegin ==
    /\ pc = "fetch_begin"
    /\ requests' = <<>>
    /\ pages' = <<>>
    /\ fetch' = FetchStart(PassRequested)
    /\ \E api_key \in BOOLEAN :
          IF api_key
          THEN /\ pc' = "post"
               /\ fetch_result' = NoResult
          ELSE /\ pc' = "fetch_done"
               /\ fetch_result' =
                     Raised("missing_api_key",
                            "Environment variable PATENTSVIEW_API_KEY is required.",
                            Failed(fetch'.diagnostics,
                                   "Missing API key in environment variable: PATENTSVIEW_API_KEY",
                                   "Set PATENTSVIEW_API_KEY before running discovery."))
    /\ UNCHANGED <<analyzer, stack, framework, locals, history, call, ret, tables, cfg, today, index, passIdx, pass_records, pass_counts, diagnostics,
                   error>>
    /\ UNCHANGED tailVars

\* one attempt more than max_retries
LastAttemptLate(attempt, max_retries) == attempt = max_retries + 1

\* if attempt == max_retries
LastAttempt(attempt, max_retries) == attempt = max_retries

\* session.post raised a requests.RequestException: another attempt of the
\* page after the backoff, or transport_error after the last attempt
PostRaises ==
    /\ pc = "post"
    /\ requests' = Append(requests, <<fetch.page, fetch.attempt, "raised">>)
    /\ IF LastAttempt(fetch.attempt, fetch.max_retries)
       THEN /\ pc' = "fetch_done"
            /\ fetch' = fetch
            /\ fetch_result' =
                  Raised("transport_error", "Failed to reach PatentsView API after retries.",
                         Failed(fetch.diagnostics,
                                "Transport error after " \o DigitsOf(fetch.max_retries)
                                   \o " attempts",
                                "Validate network access and PatentsView endpoint reachability."))
       ELSE /\ pc' = "post"
            /\ fetch' = [fetch EXCEPT !.attempt = @ + 1]
            /\ fetch_result' = fetch_result
    /\ UNCHANGED <<analyzer, stack, framework, locals, history, call, ret, tables, cfg, today, index, passIdx, pages, pass_records, pass_counts,
                   diagnostics, error>>
    /\ UNCHANGED tailVars

\* the response has a status of 400 or above: auth_failed for 401 and 403,
\* transport_error otherwise
RejectedStatuses == {401, 403, 500}

Rejection(status, diag) ==
    IF status \in {401, 403}
    THEN Raised("auth_failed", "PatentsView API rejected the API key.",
                Failed(diag,
                       "Authentication/authorization failed with HTTP " \o DigitsOf(status)
                          \o ".",
                       "Verify X-Api-Key value and API key activation status."))
    ELSE Raised("transport_error",
                "PatentsView API returned HTTP " \o DigitsOf(status) \o ".",
                Failed(diag,
                       "HTTP " \o DigitsOf(status) \o " from PatentsView API.",
                       "Review request payload and query fields against PatentSearch API docs."))

PostRejected ==
    /\ pc = "post"
    /\ requests' = Append(requests, <<fetch.page, fetch.attempt, "responded">>)
    /\ \E status \in RejectedStatuses :
          /\ fetch' = [fetch EXCEPT !.diagnostics.http_status = <<status>>]
          /\ fetch_result' = Rejection(status, fetch'.diagnostics)
    /\ pc' = "fetch_done"
    /\ UNCHANGED <<analyzer, stack, framework, locals, history, call, ret, tables, cfg, today, index, passIdx, pages, pass_records, pass_counts,
                   diagnostics, error>>
    /\ UNCHANGED tailVars

\* the response has status 200 and a body that is not JSON, that carries an
\* error flag, or in which no one list of records is found
MalformedBodies == {"not_json", "error", "no_array"}

Malformation(kind, diag) ==
    IF kind = "not_json"
    THEN Raised("schema_error", "PatentsView response could not be parsed as JSON.",
                Failed(diag, "Response body was not valid JSON.",
                       "Retry request and inspect raw response text for diagnostics."))
    ELSE IF kind = "error"
    THEN Raised("schema_error", "PatentsView response signaled API-level error.",
                Failed(diag, "PatentsView response included error=true.",
                       "Check q/f/s/o payload and key headers."))
    ELSE Raised("schema_error", "Could not locate patent array in response.",
                Failed(diag, "Unable to determine response data key for patent records.",
                       "Confirm response key for endpoint /api/v1/patent/."))

PostMalformed ==
    /\ pc = "post"
    /\ requests' = Append(requests, <<fetch.page, fetch.attempt, "responded">>)
    /\ \E kind \in MalformedBodies :
          /\ fetch' = [fetch EXCEPT !.diagnostics.http_status = <<200>>]
          /\ fetch_result' = Malformation(kind, fetch'.diagnostics)
    /\ pc' = "fetch_done"
    /\ UNCHANGED <<analyzer, stack, framework, locals, history, call, ret, tables, cfg, today, index, passIdx, pages, pass_records, pass_counts,
                   diagnostics, error>>
    /\ UNCHANGED tailVars

\* the response has status 200 and a JSON body that is not an object (a list,
\* a string, a number, null): body.get("error") raises AttributeError, which
\* neither _discover_raw_records_v2 nor discover_patents catches
PostNotObject ==
    /\ pc = "post"
    /\ requests' = Append(requests, <<fetch.page, fetch.attempt, "responded">>)
    /\ fetch' = [fetch EXCEPT !.diagnostics.http_status = <<200>>]
    /\ error' = [code |-> "AttributeError", message |-> "object has no attribute 'get'"]
    /\ pc' = "crashed"
    /\ UNCHANGED <<analyzer, stack, framework, locals, history, call, ret, tables, cfg, today, index, passIdx, pages, fetch_result, pass_records,
                   pass_counts, diagnostics>>
    /\ UNCHANGED tailVars

\* the total_hits a response body may carry: none, or an integer
TotalHits == {<<>>} \cup { <<h>> : h \in 0..MaxNum }

\* the records of a response of n items: the service's result stream for the
\* pass, continued from where the pages before ended
PageItems(n) ==
    List([i \in 1..n |->
            index[((Max(passIdx, 1) - 1 + Len(fetch.all_records) + i - 1) % Len(index)) + 1]])

\* lines 556 and 615-623: the status, the first integer total_hits, the records
WithPage(f, page_items, total_hits_raw) ==
    [f EXCEPT !.diagnostics.http_status = <<200>>,
              !.total_hits = IF @ = <<>> THEN total_hits_raw ELSE @,
              !.all_records = @ \o page_items]

\* the loop left without regard to total_hits
LoopEndsIgnoringHits(f, page_items) ==
    page_items = <<>> \/ Len(f.all_records) >= f.requested

\* the loop left only with enough records or all the hits
LoopEndsWhenFull(f, page_items) ==
    \/ Len(f.all_records) >= f.requested
    \/ f.total_hits # <<>> /\ Len(f.all_records) >= f.total_hits[1]

\* the while loop is left: an empty page, enough records, or all the hits
LoopEnds(f, page_items) ==
    \/ page_items = <<>>
    \/ Len(f.all_records) >= f.requested
    \/ f.total_hits # <<>> /\ Len(f.all_records) >= f.total_hits[1]

\* lines 633-636
Finished(f) ==
    Returned(Prefix(f.all_records, f.requested),
             [f.diagnostics EXCEPT !.raw_count = Min(Len(f.all_records), f.requested),
                                   !.status = "ok"])

\* the response is a JSON object with one list of n records: the rest of the
\* loop body, then the next page or the return
PostPage ==
    /\ pc = "post"
    /\ requests' = Append(requests, <<fetch.page, fetch.attempt, "responded">>)
    /\ \E n \in 0..fetch.per_page, total_hits_raw \in TotalHits :
          /\ pages' = Append(pages, <<n, total_hits_raw>>)
          /\ IF LoopEnds(WithPage(fetch, PageItems(n), total_hits_raw), PageItems(n))
             THEN /\ fetch' = WithPage(fetch, PageItems(n), total_hits_raw)
                  /\ fetch_result' = Finished(fetch')
                  /\ pc' = "fetch_done"
             ELSE /\ fetch' = [WithPage(fetch, PageItems(n), total_hits_raw) EXCEPT
                                  !.page = @ + 1, !.attempt = 1]
                  /\ fetch_result' = fetch_result
                  /\ pc' = "post"
    /\ UNCHANGED <<analyzer, stack, framework, locals, history, call, ret, tables, cfg, today, index, passIdx, pass_records, pass_counts, diagnostics,
                   error>>
    /\ UNCHANGED tailVars

-----------------------------------------------------------------------------
(* patent_discovery.py: _discover_raw_records_v2 and discover_patents *)

\* the fatal test on the primary pass alone
FatalPrimaryOnly(idx, code) == idx = 1

\* if idx == 0 or exc.code in {"missing_api_key", "auth_failed"}: raise
Fatal(idx, code) == idx = 1 \/ code \in {"missing_api_key", "auth_failed"}

\* the loop left one pass early
LastPassEarly(idx) == idx >= Len(PASS_NAMES) - 1

\* the pass was the last of build_retrieval_passes
LastPass(idx) == idx = Len(PASS_NAMES)

\* lines 887-889
Completed(diag, counts, records) ==
    [diag EXCEPT !.pass_counts = counts, !.raw_count = Len(records), !.status = "ok"]

\* the fetch of a pass raised PatentDiscoveryError: re-raised, or a warning, a
\* count of 0 and the next pass
PassFailed ==
    /\ pc = "fetch_done"
    /\ cfg.enable_v2_pipeline
    /\ ~fetch_result.ok
    /\ IF Fatal(passIdx, fetch_result.code)
       THEN /\ pc' = "except"
            /\ UNCHANGED <<passIdx, fetch, requests, pages, fetch_result, pass_counts,
                           diagnostics>>
       ELSE /\ pass_counts' = Append(pass_counts, 0)
            /\ fetch' = NoFetch
            /\ requests' = <<>>
            /\ pages' = <<>>
            /\ fetch_result' = NoResult
            /\ IF LastPass(passIdx)
               THEN /\ pc' = "dedupe"
                    /\ passIdx' = passIdx
                    /\ diagnostics' =
                          Completed([diagnostics EXCEPT !.warnings =
                                        Append(@, "Retrieval pass '" \o PassName
                                                     \o "' failed with " \o fetch_result.code
                                                     \o "; continuing with available passes.")],
                                    pass_counts', pass_records)
               ELSE /\ pc' = "fetch_begin"
                    /\ passIdx' = passIdx + 1
                    /\ diagnostics' =
                          [diagnostics EXCEPT !.warnings =
                              Append(@, "Retrieval pass '" \o PassName
                                           \o "' failed with " \o fetch_result.code
                                           \o "; continuing with available passes.")]
    /\ UNCHANGED <<analyzer, stack, framework, locals, history, call, ret, tables, cfg, today, index, pass_records, error>>
    /\ UNCHANGED tailVars

\* the fetch of a pass returned: its records join pass_records under its name
PassSucceeded ==
    /\ pc = "fetch_done"
    /\ cfg.enable_v2_pipeline
    /\ fetch_result.ok
    /\ pass_counts' = Append(pass_counts, Len(fetch_result.records))
    /\ pass_records' = pass_records
          \o List([i \in 1..Len(fetch_result.records) |-> <<PassName, fetch_result.records[i]>>])
    /\ fetch' = NoFetch
    /\ requests' = <<>>
    /\ pages' = <<>>
    /\ fetch_result' = NoResult
    /\ IF LastPass(passIdx)
       THEN /\ pc' = "dedupe"
            /\ passIdx' = passIdx
            /\ diagnostics' =
                  Completed([diagnostics EXCEPT
                                !.http_status = fetch_result.diagnostics.http_status],
                            pass_counts', pass_records')
       ELSE /\ pc' = "fetch_begin"
            /\ passIdx' = passIdx + 1
            /\ diagnostics' = [diagnostics EXCEPT
                                  !.http_status = fetch_result.diagnostics.http_status]
    /\ UNCHANGED <<analyzer, stack, framework, locals, history, call, ret, tables, cfg, today, index, error>>
    /\ UNCHANGED tailVars

\* discover_patents, lines 958-963: the single fetch of the path without v2
SinglePass ==
    /\ pc = "fetch_done"
    /\ ~cfg.enable_v2_pipeline
    /\ IF fetch_result.ok
       THEN /\ normalized' =
                  List([i \in 1..Len(fetch_result.records) |->
                          [_retrieval_pass_hits |-> <<"single_pass">>]
                             @@ normalize_patent_record(fetch_result.records[i])])
            /\ diagnostics' = [fetch_result.diagnostics EXCEPT
                                  !.pass_counts = <<Len(fetch_result.records)>>,
                                  !.deduped_count = Len(fetch_result.records)]
            /\ pc' = "filter"
            /\ fetch' = NoFetch
            /\ requests' = <<>>
            /\ pages' = <<>>
            /\ fetch_result' = NoResult
       ELSE /\ pc' = "except"
            /\ UNCHANGED <<normalized, diagnostics, fetch, requests, pages, fetch_result>>
    /\ UNCHANGED <<analyzer, stack, framework, locals, history, call, ret, tables, cfg, today, index, passIdx, pass_records, pass_counts, filtered, ranked,
                   scored, results, error, analysis>>

\* a record as _legacy_scrape_google builds it from a titled search result
ScrapedItem ==
    [patent_number |-> "", title |-> "Scraped sensor", abstract |-> "", link |-> "",
     patent_date |-> None, filing_date |-> None, assignee_type |-> None,
     source_provider |-> "legacy_google_scrape_fallback", patent_type |-> None]

\* _legacy_scrape_google(query, num_results) on a page of found titled items
_legacy_scrape_google(found, num_results) ==
    Prefix([i \in 1..found |-> ScrapedItem], num_results)

\* the exception caught, raised again as a transport_error
CaughtAsTransport == [code |-> "transport_error", message |-> fetch_result.message]

\* the exception discover_patents caught
Caught == [code |-> fetch_result.code, message |-> fetch_result.message]

\* discover_patents, lines 965-997 without the legacy fallback: raise exc
RaiseError ==
    /\ pc = "except"
    /\ ~cfg.allow_legacy_scrape_fallback
    /\ diagnostics' = fetch_result.diagnostics
    /\ error' = Caught
    /\ pc' = "raised"
    /\ UNCHANGED <<analyzer, stack, framework, locals, history, call, ret, tables, cfg, today, index, passIdx, fetch, requests, pages, fetch_result,
                   pass_records, pass_counts>>
    /\ UNCHANGED tailVars

\* lines 968-984: the legacy scrape raised in its turn
FallbackRaises ==
    /\ pc = "except"
    /\ cfg.allow_legacy_scrape_fallback
    /\ diagnostics' =
          [fetch_result.diagnostics EXCEPT
              !.warnings = Append(@, "Legacy scrape fallback enabled. This path is unsupported and brittle."),
              !.errors = Append(@, "Legacy fallback failed"),
              !.status = "failed"]
    /\ error' = Caught
    /\ pc' = "raised"
    /\ UNCHANGED <<analyzer, stack, framework, locals, history, call, ret, tables, cfg, today, index, passIdx, fetch, requests, pages, fetch_result,
                   pass_records, pass_counts>>
    /\ UNCHANGED tailVars

\* lines 968-997: the legacy scrape returned; its list is returned if it is not
\* empty, otherwise raise exc
FallbackReturns ==
    /\ pc = "except"
    /\ cfg.allow_legacy_scrape_fallback
    /\ \E found \in 0..MaxScrape :
          /\ results' = _legacy_scrape_google(found, IF cfg.num_results = 0 THEN 100
                                                     ELSE cfg.num_results)
          /\ IF results' # <<>>
             THEN /\ diagnostics' =
                        [fetch_result.diagnostics EXCEPT
                            !.warnings = Append(@, "Legacy scrape fallback enabled. This path is unsupported and brittle."),
                            !.provider = "legacy_google_scrape_fallback",
                            !.status = "fallback",
                            !.raw_count = Len(results'),
                            !.filtered_count = Len(results'),
                            !.deduped_count = Len(results'),
                            !.next_actions = Append(@, "Switch fallback off after troubleshooting and use PatentsView API as primary source.")]
                  /\ error' = error
                  /\ pc' = "returned"
             ELSE /\ diagnostics' =
                        [fetch_result.diagnostics EXCEPT
                            !.warnings = Append(@, "Legacy scrape fallback enabled. This path is unsupported and brittle.")]
                  /\ error' = Caught
                  /\ pc' = "raised"
    /\ UNCHANGED <<analyzer, stack, framework, locals, history, call, ret, tables, cfg, today, index, passIdx, fetch, requests, pages, fetch_result,
                   pass_records, pass_counts, normalized, filtered, ranked, scored,
                   analysis>>

-----------------------------------------------------------------------------
(* discover_patents on every small configuration, against a search service *)
(* that answers each request in any way it can                             *)

\* the result stream of the service: pass p is served from its p-th entry on
Stream == <<RawA, RawB, RawE>>

Init ==
    /\ pc = "fetch_begin"
    /\ \E num_results \in 1..MaxNum, per_page \in 1..MaxPerPage,
          max_retries \in 1..MaxRetries, enable_v2_pipeline \in BOOLEAN,
          require_likely_expired \in BOOLEAN, allow_legacy_scrape_fallback \in BOOLEAN :
          cfg = _resolve_patent_search_config(num_results, per_page, max_retries,
                                              enable_v2_pipeline, require_likely_expired,
                                              allow_legacy_scrape_fallback, NoOverride)
    /\ today \in Todays
    /\ index = Stream
    /\ passIdx = IF cfg.enable_v2_pipeline THEN 1 ELSE 0
    /\ fetch = NoFetch
    /\ requests = <<>>
    /\ pages = <<>>
    /\ fetch_result = NoResult
    /\ pass_records = <<>>
    /\ pass_counts = <<>>
    /\ diagnostics = _base_diagnostics(cfg, <<>>)
    /\ normalized = <<>>
    /\ filtered = <<>>
    /\ ranked = <<>>
    /\ scored = <<>>
    /\ results = <<>>
    /\ error = NoError
    /\ analysis = <<>>
    /\ call = NoCall
    /\ ret = None
    /\ tables = DefaultTables
    /\ framework = NewFramework
    /\ locals = NoLocals
    /\ history = <<>>
    /\ stack = NoStack
    /\ analyzer = NoAnalyzer

Next ==
    \/ FetchBegin
    \/ PostRaises
    \/ PostRejected
    \/ PostMalformed
    \/ PostNotObject
    \/ PostPage
    \/ PassFailed
    \/ PassSucceeded
    \/ SinglePass
    \/ RaiseError
    \/ FallbackRaises
    \/ FallbackReturns
    \/ Dedupe
    \/ Filter
    \/ Rerank
    \/ ApplyViability
    \/ Return

Spec == Init /\ [][Next]_vars

-----------------------------------------------------------------------------
(* patent_discovery.py: fetch_patents_patentsview called once, for any pass *)

\* the caller is about to call fetch_patents_patentsview, for the single pass
\* (0) or for one of the passes of build_retrieval_passes
InitFetch ==
    /\ pc = "fetch_begin"
    /\ \E num_results \in 1..MaxNum, per_page \in 1..MaxPerPage, max_retries \in 1..MaxRetries :
          cfg = _resolve_patent_search_config(num_results, per_page, max_retries, TRUE,
                                              FALSE, FALSE, NoOverride)
    /\ today = "2026-01-15"
    /\ index = Stream
    /\ passIdx \in 0..Len(PASS_NAMES)
    /\ fetch = NoFetch
    /\ requests = <<>>
    /\ pages = <<>>
    /\ fetch_result = NoResult
    /\ pass_records = <<>>
    /\ pass_counts = <<>>
    /\ diagnostics = _base_diagnostics(cfg, <<>>)
    /\ normalized = <<>>
    /\ filtered = <<>>
    /\ ranked = <<>>
    /\ scored = <<>>
    /\ results = <<>>
    /\ error = NoError
    /\ analysis = <<>>
    /\ call = NoCall
    /\ ret = None
    /\ tables = DefaultTables
    /\ framework = NewFramework
    /\ locals = NoLocals
    /\ history = <<>>
    /\ stack = NoStack
    /\ analyzer = NoAnalyzer

NextFetch ==
    \/ FetchBegin
    \/ PostRaises
    \/ PostRejected
    \/ PostMalformed
    \/ PostNotObject
    \/ PostPage

\* session.post returns or raises within timeout_seconds and time.sleep
\* returns after the backoff: the function goes on while it has a step to take
SpecFetch == InitFetch /\ [][NextFetch]_vars /\ WF_vars(NextFetch)

-----------------------------------------------------------------------------
(* the scoring functions, each called once on a drawn argument list *)

\* the variables of discover_patents and of the analysis, which no call of a
\* scoring function touches
discoveryVars == <<cfg, today, index, passIdx, fetch, requests, pages, fetch_result,
                   pass_records, pass_counts, diagnostics, normalized, filtered, ranked,
                   scored, results, error, analysis>>

\* titles and abstracts of candidates: no text, one domain, a three-way tie
\* (wearable, gas, sensor), a two-way tie of later domains, two hits against one
DomainTitles == {"", "Gas", "Wearable gas SENSOR", "Soil-moisture app",
                 "Remote smart monitor for crop"}

DomainAbstracts == {"", "A method of it", "wireless mobile network; air.",
                    "Toxic hazard, patient vital", "pH of the field"}

\* a candidate as discover_patents returns it (title, abstract) or as the
\* service names the fields (patent_title, patent_abstract)
DomainPatents ==
    { [title |-> t, abstract |-> a] : t \in DomainTitles, a \in DomainAbstracts }
    \cup { [patent_title |-> t, patent_abstract |-> a] :
              t \in DomainTitles, a \in DomainAbstracts }

ClassifyCalls == { [fn |-> "classify_market_domain", patent |-> p] : p \in DomainPatents }

\* best_domain, scores = classify_market_domain(patent)
ClassifyDomain ==
    /\ pc = "call"
    /\ call.fn = "classify_market_domain"
    /\ ret' = classify_market_domain(call.patent)
    /\ pc' = "done"
    /\ UNCHANGED <<call, tables>>
    /\ UNCHANGED <<analyzer, stack, framework, locals, history>>
    /\ UNCHANGED <<analyzer, stack, discoveryVars>>

\* the weight overrides a caller supplies: none, one recognized key, only an
\* unrecognized key, recognized and unrecognized keys mixed with values above
\* 1 and below 0
ViabilityOverrides ==
    {<<>>, [market_demand |-> 3000], [novelty |-> 900],
     [market_demand |-> 0, build_feasibility |-> -1000, novelty |-> 900]}

OpportunityOverrides ==
    {<<>>, [viability |-> 1000], [novelty |-> 900],
     [retrieval |-> 2000, expiration |-> -300, novelty |-> 900]}

RetrievalOverrides ==
    {<<>>, [query_coverage |-> 1000], [novelty |-> 900],
     [semantic_similarity |-> 5000, pass_diversity |-> -500, novelty |-> 900]}

\* candidates whose scores the weights are applied to
WeightedPatents ==
    {[patent_number |-> "US1", title |-> "Gas sensor", abstract |-> "",
      patent_date |-> "2001-03-04", filing_date |-> "1999-05-06", patent_type |-> "utility",
      assignee_type |-> "4"],
     [patent_number |-> "US9", title |-> "Portable real time safety network",
      abstract |-> "a prototype method", patent_date |-> "2020-01-01",
      filing_date |-> "2016-02-29", patent_type |-> "utility", assignee_type |-> "2"]}

CallDate == "2026-01-15"

ScorecardCalls ==
    { [fn |-> "compute_viability_scorecard", patent |-> p, weights |-> w,
       as_of_date |-> CallDate] : p \in WeightedPatents, w \in ViabilityOverrides }

ScoreLevels == {0, 3333, 10000}

OpportunityCalls ==
    { [fn |-> "compute_opportunity_score_v2", retrieval_total |-> r, viability_total |-> v,
       expiration_confidence |-> e, scoring_weights |-> w] :
         r \in ScoreLevels, v \in ScoreLevels, e \in ScoreLevels, w \in OpportunityOverrides }

RerankCalls ==
    { [fn |-> "rerank_patent_candidates_v2", candidates |-> <<p>>,
       search_config |->
          _resolve_patent_search_config(1, 1, 1, TRUE, FALSE, FALSE,
                                        [retrieval |-> w, viability |-> <<>>,
                                         opportunity |-> <<>>]),
       score_weights |-> w, as_of_date |-> CallDate] :
         p \in WeightedPatents, w \in RetrievalOverrides }

\* compute_viability_scorecard(patent, weights, as_of_date); used_weights is
\* dict(DEFAULT_VIABILITY_COMPONENT_WEIGHTS), a copy, so the module's table is
\* not written
Scorecard ==
    /\ pc = "call"
    /\ call.fn = "compute_viability_scorecard"
    /\ ret' = compute_viability_scorecard(call.patent, call.weights, call.as_of_date)
    /\ tables' = tables
    /\ pc' = "done"
    /\ UNCHANGED call
    /\ UNCHANGED <<analyzer, stack, framework, locals, history>>
    /\ UNCHANGED <<analyzer, stack, discoveryVars>>

\* compute_opportunity_score_v2(...); used_weights is
\* dict(DEFAULT_OPPORTUNITY_WEIGHTS)
Opportunity ==
    /\ pc = "call"
    /\ call.fn = "compute_opportunity_score_v2"
    /\ ret' = compute_opportunity_score_v2(call.retrieval_total, call.viability_total,
                                           call.expiration_confidence, call.scoring_weights)
    /\ tables' = tables
    /\ pc' = "done"
    /\ UNCHANGED call
    /\ UNCHANGED <<analyzer, stack, framework, locals, history>>
    /\ UNCHANGED <<analyzer, stack, discoveryVars>>

\* rerank_patent_candidates_v2(candidates, search_config, as_of_date); weights
\* is dict(DEFAULT_RETRIEVAL_SCORE_WEIGHTS)
RerankCandidates ==
    /\ pc = "call"
    /\ call.fn = "rerank_patent_candidates_v2"
    /\ ret' = rerank_patent_candidates_v2(call.candidates, call.search_config,
                                          call.as_of_date)
    /\ tables' = tables
    /\ pc' = "done"
    /\ UNCHANGED call
    /\ UNCHANGED <<analyzer, stack, framework, locals, history>>
    /\ UNCHANGED <<analyzer, stack, discoveryVars>>

\* as-of dates: an ordinary day, a leap day, the day after a February
AsOfDates == {"2026-01-15", "2024-02-29", "2025-03-01"}

\* the whole calendar years between filing and as-of date that are drawn
MaxYears == 21

\* the date n calendar years before an ISO date (same month and day)
YearsBefore(iso, n) == DigitsOf(ParseInt(SubSeq(iso, 1, 4)) - n) \o SubSeq(iso, 5, 10)

\* calls on candidates filed a whole number of calendar years before the as-of
\* date, where that day exists
ExpirationCalls ==
    UNION { { [fn |-> "expiration_confidence_score",
               patent |-> [filing_date |-> YearsBefore(d, n), patent_date |-> d,
                           patent_type |-> "utility"],
               as_of_date |-> d, years |-> n] :
                 n \in { m \in 0..MaxYears : _iso_date(YearsBefore(d, m)) # <<>> } } :
            d \in AsOfDates }

\* expiration_confidence_score(patent, as_of_date)
ExpirationScore ==
    /\ pc = "call"
    /\ call.fn = "expiration_confidence_score"
    /\ ret' = expiration_confidence_score(call.patent, call.as_of_date)
    /\ pc' = "done"
    /\ UNCHANGED <<call, tables>>
    /\ UNCHANGED <<analyzer, stack, framework, locals, history>>
    /\ UNCHANGED <<analyzer, stack, discoveryVars>>

\* keywords of a configuration: mixed case, padding, a stopword, nothing, None,
\* words with and without synonyms, a keyword that is another's synonym
KeywordPool == <<"Gas Sensor", " soil ", "", None, "air", "the portable device", "GAS">>

\* the longest keyword list and the largest cap that are drawn
MaxKeywords == 2
MaxExpanded == 7

KeywordLists ==
    UNION { { [i \in 1..n |-> KeywordPool[s[i]]] : s \in [1..n -> 1..Len(KeywordPool)] } :
              n \in 0..MaxKeywords }

ExpandCalls ==
    { [fn |-> "expand_keywords_for_v2", keywords |-> k, max_expanded_keywords |-> m] :
         k \in KeywordLists, m \in (0..MaxExpanded) \cup {24} }

\* expand_keywords_for_v2(keywords, max_expanded_keywords)
ExpandKeywords ==
    /\ pc = "call"
    /\ call.fn = "expand_keywords_for_v2"
    /\ ret' = expand_keywords_for_v2(call.keywords, call.max_expanded_keywords)
    /\ pc' = "done"
    /\ UNCHANGED <<call, tables>>
    /\ UNCHANGED <<analyzer, stack, framework, locals, history>>
    /\ UNCHANGED <<analyzer, stack, discoveryVars>>

ScoringCalls ==
    ClassifyCalls \cup ScorecardCalls \cup OpportunityCalls \cup RerankCalls
    \cup ExpirationCalls \cup ExpandCalls

\* one call of one scoring function, in a process that has made none before
InitScoring ==
    /\ pc = "call"
    /\ call \in ScoringCalls
    /\ ret = None
    /\ tables = DefaultTables
    /\ framework = NewFramework
    /\ locals = NoLocals
    /\ history = <<>>
    /\ stack = NoStack
    /\ analyzer = NoAnalyzer
    /\ cfg = _resolve_patent_search_config(1, 1, 1, TRUE, FALSE, FALSE, NoOverride)
    /\ today = CallDate
    /\ index = <<>>
    /\ passIdx = 0
    /\ fetch = NoFetch
    /\ requests = <<>>
    /\ pages = <<>>
    /\ fetch_result = NoResult
    /\ pass_records = <<>>
    /\ pass_counts = <<>>
    /\ diagnostics = _base_diagnostics(cfg, <<>>)
    /\ normalized = <<>>
    /\ filtered = <<>>
    /\ ranked = <<>>
    /\ scored = <<>>
    /\ results = <<>>
    /\ error = NoError
    /\ analysis = <<>>

NextScoring ==
    \/ ClassifyDomain
    \/ Scorecard
    \/ Opportunity
    \/ RerankCandidates
    \/ ExpirationScore
    \/ ExpandKeywords

SpecScoring == InitScoring /\ [][NextScoring]_vars

-----------------------------------------------------------------------------
(* One PatentAnalysisFramework and the valuation calls made on it *)

ValuationPatents ==
    {[patent_number |-> "US1", title |-> "Widget", abstract |-> ""],
     [patent_number |-> "US1", title |-> "Gas sensor", abstract |-> "A method for premium accuracy"],
     [title |-> "Widget", abstract |-> ""]}

ValuationProfiles ==
    {[required_materials |-> <<"electronic">>, required_equipment |-> <<"automation">>, capex_low |-> 120000, capex_high |-> 180000, opex_annual_change |-> 15000, benchmark_industry |-> ""],
     [required_materials |-> <<>>, required_equipment |-> <<"automation", "testing">>, capex_low |-> 100000, capex_high |-> 100000, opex_annual_change |-> 500000, benchmark_industry |-> "Electronics (General)"]}

MaxCalls == 2

\* cash-flow lists for direct calls of the IRR estimate
CashFlowLists ==
    {<<>>,
     <<Float(-100)>>,
     <<Float(100), Float(30)>>,
     <<Float(0), Float(30)>>,
     <<Float(-100), Float(0), Float(0)>>,
     <<Float(-100), Float(-30), Float(0)>>,
     <<Float(-100), Ratio(1, 1000)>>,
     <<Float(-1), Float(1000)>>,
     <<Float(-100), Float(230), Float(-132)>>,
     <<Float(-100), Float(30), Float(30), Float(30), Float(30)>>,
     <<Float(-100), Ratio(1525, 10)>>,
     <<Float(-100), Float(20), Float(20), Float(20)>>,
     <<Float(-100), Float(290)>>,
     <<Float(-150000), Float(20000), Float(30000), Float(40000), Float(50000), Float(60000), Float(-5000)>>}

\* the locals of an estimate_financial_metrics call that has none
NoCaller == <<>>

\* irr = self._estimate_internal_rate_percent(base_cash_flows): the callee's locals
IrrOf(e) == IrrLocals(Floats(e.base_cash_flows), e)

\* the IRR call goes on, or returns: to the estimate waiting for it, or to
\* the direct caller with the value in thousandths of a percent
IrrAdvance(st) ==
    /\ locals' = st
    /\ ret' = IF st.returned /\ st.caller = NoCaller THEN Scaled(st.value, 1000) ELSE None
    /\ pc' = IF ~st.returned THEN "bisect" ELSE IF st.caller = NoCaller THEN "done" ELSE "valuation"

\* a call of estimate_financial_metrics on the framework, up to and into
\* its call of _estimate_internal_rate_percent
EstimateFinancialMetrics ==
    /\ pc = "call" \/ (pc = "done" /\ call.fn = "estimate_financial_metrics")
    /\ Len(history) < MaxCalls
    /\ \E patent \in ValuationPatents, manufacturing_profile \in ValuationProfiles :
          /\ call' = [fn |-> "estimate_financial_metrics", patent |-> patent, manufacturing_profile |-> manufacturing_profile]
          /\ IrrAdvance(IrrEnter(IrrOf(estimate_financial_metrics(framework, patent, manufacturing_profile))))
    /\ framework' = [framework EXCEPT !._macro_signals_cache = _macro_signals(framework)]
    /\ UNCHANGED <<history, tables>>
    /\ UNCHANGED <<analyzer, stack, discoveryVars>>

\* the estimate from the IRR returned to it: the valuation range and the result
EstimateReturn ==
    /\ pc = "valuation"
    /\ ret' = EstimateResult(locals.caller, locals.value)
    /\ history' = Append(history, [patent |-> call.patent, manufacturing_profile |-> call.manufacturing_profile, risk_adjusted_npv_p10 |-> locals.caller.p10_npv, risk_adjusted_npv_p90 |-> locals.caller.p90_npv])
    /\ pc' = "done"
    /\ UNCHANGED <<framework, locals, call, tables>>
    /\ UNCHANGED <<analyzer, stack, discoveryVars>>

\* a direct call of _estimate_internal_rate_percent, up to the loop
IrrCall ==
    /\ pc = "call"
    /\ \E cash_flows \in CashFlowLists :
          /\ call' = [fn |-> "_estimate_internal_rate_percent", cash_flows |-> cash_flows]
          /\ IrrAdvance(IrrEnter(IrrLocals(cash_flows, NoCaller)))
    /\ UNCHANGED <<framework, history, tables>>
    /\ UNCHANGED <<analyzer, stack, discoveryVars>>

\* one pass of the bisection loop, or the return after the last pass
IrrIterate ==
    /\ pc = "bisect"
    /\ \E st \in {IrrStep(locals)} : IrrAdvance(st)
    /\ UNCHANGED <<framework, history, call, tables>>
    /\ UNCHANGED <<analyzer, stack, discoveryVars>>

TechnicalScores ==
    {[scientific_robustness |-> 7000, manufacturing_feasibility_current |-> 6000, modernization_potential |-> 8000],
     [scientific_robustness |-> 10000, manufacturing_feasibility_current |-> 10000, modernization_potential |-> 10000]}

StrategicAssessments ==
    {[strategic_fit_score |-> 7500, legal_ip_risk |-> "low", esg_sustainability_benefit |-> "high"],
     [strategic_fit_score |-> 4000, legal_ip_risk |-> "medium", esg_sustainability_benefit |-> "medium"],
     [strategic_fit_score |-> 1000, legal_ip_risk |-> "high", esg_sustainability_benefit |-> "low"]}

\* the results that can be made of the estimate just returned: each part set or not
AnalysisResults ==
    { [technical_score |-> technical, manufacturing_profile |-> profile, financial_metrics |-> metrics, strategic_assessment |-> strategic] :
        technical \in TechnicalScores \cup {Missing},
        profile \in {call.manufacturing_profile, Missing},
        metrics \in {ret, Missing},
        strategic \in StrategicAssessments \cup {Missing} }

\* a call of compute_integrated_score on a result holding the estimate
ComputeIntegratedScore ==
    /\ pc = "done"
    /\ call.fn = "estimate_financial_metrics"
    /\ \E result \in AnalysisResults :
          /\ call' = [fn |-> "compute_integrated_score", result |-> result]
          /\ ret' = compute_integrated_score(result)
    /\ pc' = "done"
    /\ UNCHANGED <<framework, history, locals, tables>>
    /\ UNCHANGED <<analyzer, stack, discoveryVars>>

InitValuation ==
    /\ pc = "call"
    /\ call = NoCall
    /\ ret = None
    /\ framework = NewFramework
    /\ locals = NoLocals
    /\ history = <<>>
    /\ stack = NoStack
    /\ analyzer = NoAnalyzer
    /\ tables = DefaultTables
    /\ cfg = _resolve_patent_search_config(1, 1, 1, TRUE, FALSE, FALSE, NoOverride)
    /\ today = CallDate
    /\ index = <<>>
    /\ passIdx = 0
    /\ fetch = NoFetch
    /\ requests = <<>>
    /\ pages = <<>>
    /\ fetch_result = NoResult
    /\ pass_records = <<>>
    /\ pass_counts = <<>>
    /\ diagnostics = _base_diagnostics(cfg, <<>>)
    /\ normalized = <<>>
    /\ filtered = <<>>
    /\ ranked = <<>>
    /\ scored = <<>>
    /\ results = <<>>
    /\ error = NoError
    /\ analysis = <<>>

NextValuation ==
    \/ EstimateFinancialMetrics
    \/ EstimateReturn
    \/ ComputeIntegratedScore
    \/ IrrCall
    \/ IrrIterate

SpecValuation == InitValuation /\ [][NextValuation]_vars

\* the bisection loop is never abandoned half-way
FairValuation == SpecValuation /\ WF_vars(IrrIterate)

-----------------------------------------------------------------------------
(* financial_mcp_stack.py: FinancialMCPStack with its snapshot cache *)

\* re.sub(r"[^a-z0-9]+", "", str(value or "").lower())
_normalized_label(value) ==
    ConcatChars([i \in 1..Len(Or(value, "")) |->
                    IF LowerChar(Char(Or(value, ""), i)) \in AlnumChars
                    THEN LowerChar(Char(Or(value, ""), i)) ELSE ""],
                1, Len(Or(value, "")))

\* a datetime: seconds since 2000-01-01 in its own offset, microseconds, and
\* <<the UTC offset in seconds>>, <<>> for a naive datetime
DateTime(days, seconds, micro, offset) ==
    [ok |-> TRUE, seconds |-> (days - DayNumber(2000, 1, 1)) * 86400 + seconds,
     micro |-> micro, offset |-> offset]

\* the exception fromisoformat raised
NotIso(exception) == [ok |-> FALSE, raised |-> exception]

\* the fields of "HH:MM:SS": seconds of the day, <<>> for a ValueError
ClockTime(t) ==
    IF /\ Len(t) = 8 /\ Char(t, 3) = ":" /\ Char(t, 6) = ":"
       /\ IsDigits(SubSeq(t, 1, 2)) /\ IsDigits(SubSeq(t, 4, 5)) /\ IsDigits(SubSeq(t, 7, 8))
       /\ ParseInt(SubSeq(t, 1, 2)) < 24 /\ ParseInt(SubSeq(t, 4, 5)) < 60
       /\ ParseInt(SubSeq(t, 7, 8)) < 60
    THEN <<ParseInt(SubSeq(t, 1, 2)) * 3600 + ParseInt(SubSeq(t, 4, 5)) * 60
              + ParseInt(SubSeq(t, 7, 8))>>
    ELSE <<>>

\* <<the offset "+HH:MM" or "-HH:MM" in seconds>>, <<>> for no offset, None for
\* a ValueError
UtcOffset(z) ==
    IF z = "" THEN <<>>
    ELSE IF /\ Len(z) = 6 /\ Char(z, 1) \in {"+", "-"} /\ Char(z, 4) = ":"
            /\ IsDigits(SubSeq(z, 2, 3)) /\ IsDigits(SubSeq(z, 5, 6))
            /\ ParseInt(SubSeq(z, 2, 3)) < 24 /\ ParseInt(SubSeq(z, 5, 6)) < 60
    THEN <<(IF Char(z, 1) = "-" THEN -1 ELSE 1)
              * (ParseInt(SubSeq(z, 2, 3)) * 3600 + ParseInt(SubSeq(z, 5, 6)) * 60)>>
    ELSE None

\* the date, the time and what follows the seconds, put together
IsoParts(date, time, micro, offset) ==
    IF date = <<>> \/ time = <<>> \/ micro = <<>> \/ offset = None
    THEN NotIso("ValueError")
    ELSE DateTime(date[1], time[1], micro[1], offset)

\* the text after "YYYY-MM-DDTHH:MM:SS": an optional ".ffffff", an optional
\* offset
IsoTail(date, time, tail) ==
    IF Len(tail) >= 7 /\ Char(tail, 1) = "."
    THEN IsoParts(date, time,
                  IF IsDigits(SubSeq(tail, 2, 7)) THEN <<ParseInt(SubSeq(tail, 2, 7))>>
                  ELSE <<>>,
                  UtcOffset(SubSeq(tail, 8, Len(tail))))
    ELSE IsoParts(date, time, <<0>>, UtcOffset(tail))

\* "YYYY-MM-DD" with four, two and two digits
IsoDate(d) ==
    IF /\ Len(d) = 10 /\ Char(d, 5) = "-" /\ Char(d, 8) = "-"
       /\ IsDigits(SubSeq(d, 1, 4)) /\ IsDigits(SubSeq(d, 6, 7)) /\ IsDigits(SubSeq(d, 9, 10))
    THEN CivilDate(ParseInt(SubSeq(d, 1, 4)), ParseInt(SubSeq(d, 6, 7)),
                   ParseInt(SubSeq(d, 9, 10)))
    ELSE <<>>

\* datetime.fromisoformat(value) for None and for texts of the shapes
\* YYYY-MM-DD and YYYY-MM-DDTHH:MM:SS[.ffffff][+HH:MM]; any other text is taken
\* as a ValueError
fromisoformat(value) ==
    IF value = None THEN NotIso("TypeError")
    ELSE IF Len(value) = 10 THEN IsoParts(IsoDate(value), <<0>>, <<0>>, <<>>)
    ELSE IF Len(value) < 19 THEN NotIso("ValueError")
    ELSE IsoTail(IsoDate(SubSeq(value, 1, 10)), ClockTime(SubSeq(value, 12, 19)),
                 SubSeq(value, 20, Len(value)))

\* the instants at which the clock is read, as datetime.utcnow().isoformat()
\* gives them
Instants ==
    <<"2026-01-15T12:00:00.250000", "2026-01-15T13:00:00.250000",
      "2026-01-16T12:00:00.250000", "2026-01-16T12:00:00.250001">>

\* datetime.utcnow() - timestamp > timedelta(hours=cache_ttl_hours), of two
\* naive datetimes
OlderThan(now, timestamp, cache_ttl_hours) ==
    \/ now.seconds - timestamp.seconds > cache_ttl_hours * 3600
    \/ /\ now.seconds - timestamp.seconds = cache_ttl_hours * 3600
       /\ now.micro > timestamp.micro

\* no file at cache_path
NoFile == [exists |-> FALSE]

\* a file whose text json.loads rejects
TextFile(text) == [exists |-> TRUE, json |-> FALSE, text |-> text]

\* a file holding the JSON document value, an "object" or an "array"
JsonFile(type, value) == [exists |-> TRUE, json |-> TRUE, type |-> type, value |-> value]

\* the outcomes of _load_cached_snapshot
NotCached == [payload |-> <<>>, raised |-> None]
Cached(payload) == [payload |-> payload, raised |-> None]
LoadRaises(exception) == [payload |-> <<>>, raised |-> exception]

\* self._snapshot is None
NotLoaded == <<>>

\* _load_cached_snapshot, lines 408-410: the subtraction of an aware timestamp
\* from the naive utcnow() raises TypeError outside the try
Aged(payload, now, timestamp, cache_ttl_hours) ==
    IF timestamp.offset # <<>> THEN LoadRaises("TypeError")
    ELSE IF OlderThan(now, timestamp, cache_ttl_hours) THEN NotCached
    ELSE Cached(payload)

\* _load_cached_snapshot, lines 403-407, with the timestamp parsed
Stamped(payload, now, timestamp, cache_ttl_hours) ==
    IF ~timestamp.ok THEN NotCached ELSE Aged(payload, now, timestamp, cache_ttl_hours)

_load_cached_snapshot(file, now, cache_ttl_hours) ==
    IF ~file.exists THEN NotCached
    ELSE IF ~file.json THEN NotCached
    ELSE IF file.type # "object" THEN NotCached
    ELSE Stamped(file.value, now, fromisoformat(Get(file.value, "fetched_at")),
                 cache_ttl_hours)

\* _build_snapshot with use_network off
_build_snapshot(now_text) ==
    [fetched_at          |-> now_text,
     macro_signals       |-> SnapshotMacro,
     industry_benchmarks |-> SnapshotBenchmarks,
     warnings            |-> <<>>]

\* {_normalized_label(name): name for name in industry_benchmarks.keys()}
IndustryIndex(snapshot) ==
    IF "industry_benchmarks" \notin DOMAIN snapshot THEN <<>>
    ELSE [label \in { _normalized_label(name) : name \in DOMAIN snapshot.industry_benchmarks } |->
             CHOOSE name \in DOMAIN snapshot.industry_benchmarks :
                 _normalized_label(name) = label]

\* the stack with the snapshot in memory and, when it was built, on disk
Loaded(s, snapshot, written) ==
    [s EXCEPT !._snapshot = snapshot,
              !._industry_index = IndustryIndex(snapshot),
              !.file = IF written THEN JsonFile("object", snapshot) ELSE @]

\* _ensure_snapshot_loaded from the outcome of _load_cached_snapshot
EnsuredFrom(s, cached) ==
    IF cached.raised # None THEN [stack |-> s, raised |-> cached.raised]
    ELSE IF cached.payload # <<>>
    THEN [stack |-> Loaded(s, cached.payload, FALSE), raised |-> None]
    ELSE [stack |-> Loaded(s, _build_snapshot(Instants[s.clock]), TRUE), raised |-> None]

\* _ensure_snapshot_loaded: the stack afterwards and the exception raised
_ensure_snapshot_loaded(s) ==
    IF s._snapshot # NotLoaded THEN [stack |-> s, raised |-> None]
    ELSE EnsuredFrom(s, _load_cached_snapshot(s.file, fromisoformat(Instants[s.clock]),
                                              s.cache_ttl_hours))

\* _coerce_industry(requested_name) over an index
CoerceIn(industry_index, key) ==
    IF key \in DOMAIN industry_index THEN industry_index[key]
    ELSE IF "totalmarketwithoutfinancials" \in DOMAIN industry_index
    THEN industry_index["totalmarketwithoutfinancials"]
    ELSE IF DOMAIN industry_index # {}
    THEN industry_index[CHOOSE label \in DOMAIN industry_index : TRUE]
    ELSE "Total  Market (without financials)"

_coerce_industry(s, requested_name) ==
    CoerceIn(s._industry_index, _normalized_label(requested_name))

\* what a query returns or raises
QueryReturned(value) == [raised |-> None, value |-> value]
QueryRaised(exception) == [raised |-> exception, value |-> None]

\* MacroSignals(**payload), IndustryBenchmark(**payload): a TypeError unless
\* the keys are the fields of the dataclass
Dataclass(payload, default) ==
    IF DOMAIN payload = DOMAIN default THEN QueryReturned(payload) ELSE QueryRaised("TypeError")

\* get_macro_signals on a loaded stack
MacroOf(snapshot) ==
    IF "macro_signals" \notin DOMAIN snapshot \/ snapshot.macro_signals = <<>>
    THEN QueryReturned(SnapshotMacro)
    ELSE Dataclass(snapshot.macro_signals, SnapshotMacro)

TotalMarket == SnapshotBenchmarks["Total  Market (without financials)"]

\* benchmarks.get(name) turned into an IndustryBenchmark, or the next choice
BenchmarkAt(benchmarks, name, otherwise) ==
    IF name \in DOMAIN benchmarks /\ benchmarks[name] # <<>>
    THEN Dataclass(benchmarks[name], TotalMarket)
    ELSE otherwise

\* get_industry_benchmark on a loaded stack, lines 358-371
BenchmarkOf(s, benchmarks, industry_name) ==
    IF benchmarks = <<>> THEN QueryReturned(TotalMarket)
    ELSE BenchmarkAt(benchmarks, _coerce_industry(s, industry_name),
                     BenchmarkAt(benchmarks,
                                 _coerce_industry(s, "Total  Market (without financials)"),
                                 QueryReturned(TotalMarket)))

\* the cache files a stack may find: none; no JSON; a JSON array; an object
\* without fetched_at; with a fetched_at that is no ISO text; snapshots that at
\* the first instant are 25 hours old, exactly 24 hours old and one hour old;
\* a snapshot of 2020 whose fetched_at carries a UTC offset
CachedMacro == [risk_free_rate |-> 999, inflation_rate |-> 280, real_gdp_growth |-> 210]

CachedSnapshot(fetched_at) ==
    [fetched_at          |-> fetched_at,
     macro_signals       |-> CachedMacro,
     industry_benchmarks |-> [name \in {"Machinery"} |->
                                 [TotalMarket EXCEPT !.industry_name = "Machinery"]],
     warnings            |-> <<>>]

CacheFiles ==
    {NoFile,
     TextFile("not json"),
     JsonFile("array", <<>>),
     JsonFile("object", [macro_signals |-> CachedMacro]),
     JsonFile("object", CachedSnapshot("yesterday")),
     JsonFile("object", CachedSnapshot("2026-01-14T11:00:00.250000")),
     JsonFile("object", CachedSnapshot("2026-01-14T12:00:00.250000")),
     JsonFile("object", CachedSnapshot("2026-01-15T11:00:00.250000")),
     JsonFile("object", CachedSnapshot("2020-01-01T00:00:00+00:00"))}

\* the industry names asked for: one of the defaults, the same in another
\* spelling, the fallback itself, one of the cached snapshot, one of neither
IndustryNames ==
    {"Electronics (General)", "electronics general", "Total  Market (without financials)",
     "Machinery", "Unknown Industry"}

\* FinancialMCPStack(cache_path, cache_ttl_hours=24, use_network=False)
NewStack(file, clock) ==
    [cache_ttl_hours |-> 24, use_network |-> FALSE, _snapshot |-> NotLoaded,
     _industry_index |-> <<>>, file |-> file, clock |-> clock]

\* a query answered or failed: the stack as _ensure_snapshot_loaded left it
Answer(query, ensured, answer) ==
    /\ stack' = ensured.stack
    /\ call' = query
    /\ ret' = IF ensured.raised # None THEN QueryRaised(ensured.raised) ELSE answer

\* get_macro_signals()
GetMacroSignals ==
    /\ pc = "stack"
    /\ Answer([fn |-> "get_macro_signals"], _ensure_snapshot_loaded(stack),
              IF _ensure_snapshot_loaded(stack).raised # None THEN None
              ELSE MacroOf(_ensure_snapshot_loaded(stack).stack._snapshot))
    /\ UNCHANGED <<pc, framework, locals, history, tables>>
    /\ UNCHANGED <<analyzer, discoveryVars>>

\* the benchmarks of the snapshot, {} when it has none
BenchmarksOf(snapshot) ==
    IF "industry_benchmarks" \in DOMAIN snapshot THEN snapshot.industry_benchmarks ELSE <<>>

\* get_industry_benchmark(industry_name)
GetIndustryBenchmark ==
    /\ pc = "stack"
    /\ \E industry_name \in IndustryNames :
          Answer([fn |-> "get_industry_benchmark", industry_name |-> industry_name],
                 _ensure_snapshot_loaded(stack),
                 IF _ensure_snapshot_loaded(stack).raised # None THEN None
                 ELSE BenchmarkOf(_ensure_snapshot_loaded(stack).stack,
                                  BenchmarksOf(_ensure_snapshot_loaded(stack).stack._snapshot),
                                  industry_name))
    /\ UNCHANGED <<pc, framework, locals, history, tables>>
    /\ UNCHANGED <<analyzer, discoveryVars>>

\* time passes
Tick ==
    /\ pc = "stack"
    /\ stack.clock < Len(Instants)
    /\ stack' = [stack EXCEPT !.clock = @ + 1]
    /\ UNCHANGED <<pc, call, ret, framework, locals, history, tables>>
    /\ UNCHANGED <<analyzer, discoveryVars>>

\* the process ends and another one makes a stack on the same cache_path
Restart ==
    /\ pc = "stack"
    /\ stack._snapshot # NotLoaded
    /\ stack' = NewStack(stack.file, stack.clock)
    /\ call' = NoCall
    /\ ret' = None
    /\ UNCHANGED <<pc, framework, locals, history, tables>>
    /\ UNCHANGED <<analyzer, discoveryVars>>

InitStack ==
    /\ pc = "stack"
    /\ \E file \in CacheFiles : stack = NewStack(file, 1)
    /\ analyzer = NoAnalyzer
    /\ call = NoCall
    /\ ret = None
    /\ framework = NewFramework
    /\ locals = NoLocals
    /\ history = <<>>
    /\ tables = DefaultTables
    /\ cfg = _resolve_patent_search_config(1, 1, 1, TRUE, FALSE, FALSE, NoOverride)
    /\ today = "2026-01-15"
    /\ index = <<>>
    /\ passIdx = 0
    /\ fetch = NoFetch
    /\ requests = <<>>
    /\ pages = <<>>
    /\ fetch_result = NoResult
    /\ pass_records = <<>>
    /\ pass_counts = <<>>
    /\ diagnostics = _base_diagnostics(cfg, <<>>)
    /\ normalized = <<>>
    /\ filtered = <<>>
    /\ ranked = <<>>
    /\ scored = <<>>
    /\ results = <<>>
    /\ error = NoError
    /\ analysis = <<>>

NextStack ==
    \/ GetMacroSignals
    \/ GetIndustryBenchmark
    \/ Tick
    \/ Restart

SpecStack == InitStack /\ [][NextStack]_vars

-----------------------------------------------------------------------------
(* streamlit_app.py: PatentAnalyzer.get_enriched_patents *)

REQUIRED_VIABILITY_KEYS ==
    {"market_demand", "build_feasibility", "competition_headroom",
     "differentiation_potential", "commercial_readiness", "marketability",
     "viral_potential", "ease_of_use", "real_world_impact", "total"}

\* FALLBACK_SEARCH_CONFIG; it has no score_weights, which reranking reads
\* with .get
FALLBACK_SEARCH_CONFIG ==
    [keywords        |-> <<"portable", "sensor">>,
     retrieval_v2    |-> [max_expanded_keywords |-> 24, score_weights |-> <<>>],
     scoring_weights |-> [retrieval |-> 350, viability |-> 450, expiration |-> 200]]

\* patent.get("explanations", {})
ExplanationsOf(patent) == IF "explanations" \in DOMAIN patent THEN patent.explanations ELSE <<>>

\* patent.get("retrieval_scorecard", {}).get("total", 0.0)
RetrievalTotal(patent) ==
    IF "retrieval_scorecard" \in DOMAIN patent /\ "total" \in DOMAIN patent.retrieval_scorecard
    THEN patent.retrieval_scorecard.total ELSE 0

\* patent.get("viability_scorecard", {}).get("total", 0.0)
ViabilityTotal(patent) ==
    IF "viability_scorecard" \in DOMAIN patent /\ "total" \in DOMAIN patent.viability_scorecard
    THEN patent.viability_scorecard.total ELSE 0

\* the viability fields of the record set from a new scorecard; the summary
\* replaces the viability explanation, or only fills it when keep is set
WithViability(patent, refreshed, keep) ==
    [viability_scorecard |-> refreshed.components,
     market_domain       |-> refreshed.market_domain,
     scoring_version     |-> SCORING_VERSION,
     explanations        |-> IF keep
                             THEN ExplanationsOf(patent) @@ [viability |-> refreshed.summary]
                             ELSE [viability |-> refreshed.summary] @@ ExplanationsOf(patent)]
    @@ patent

\* opportunity_score_v2 computed only when the record has none
WithOpportunityKept(patent, recompute, scoring_weights, as_of_date) ==
    IF "opportunity_score_v2" \notin DOMAIN patent
    THEN [opportunity_score_v2 |->
             compute_opportunity_score_v2(RetrievalTotal(patent), ViabilityTotal(patent),
                                          expiration_confidence_score(patent, as_of_date),
                                          scoring_weights)] @@ patent
    ELSE patent

\* opportunity_score_v2 computed when it is missing or when recompute is set
WithOpportunity(patent, recompute, scoring_weights, as_of_date) ==
    IF recompute \/ "opportunity_score_v2" \notin DOMAIN patent
    THEN [opportunity_score_v2 |->
             compute_opportunity_score_v2(RetrievalTotal(patent), ViabilityTotal(patent),
                                          expiration_confidence_score(patent, as_of_date),
                                          scoring_weights)] @@ patent
    ELSE patent

\* patent["opportunity_score"] = float(patent.get("opportunity_score_v2", 0.0))
\* patent["score_components"] = viability
WithScores(patent) ==
    [opportunity_score |-> patent.opportunity_score_v2,
     score_components  |-> patent.viability_scorecard] @@ patent

\* not REQUIRED_VIABILITY_KEYS.issubset(set(viability))
\* or patent.get("scoring_version") != SCORING_VERSION
NeedsRefresh(patent) ==
    \/ ~(REQUIRED_VIABILITY_KEYS \subseteq DOMAIN patent.viability_scorecard)
    \/ Get(patent, "scoring_version") # SCORING_VERSION

\* the loop body of get_enriched_patents for a record with both scorecards
EnrichOne(patent, as_of_date) ==
    IF NeedsRefresh(patent)
    THEN WithScores(WithOpportunity(
             WithViability(patent, compute_viability_scorecard(patent, <<>>, as_of_date),
                           FALSE),
             TRUE, <<>>, as_of_date))
    ELSE WithScores(WithOpportunity(patent, FALSE, <<>>, as_of_date))

\* the explanations _score_legacy_patents fills in when they are missing
WithLegacyExplanations(patent, retrieval_total, viability_total, expiration_total) ==
    [explanations |->
        ExplanationsOf(patent)
        @@ [retrieval   |-> "Legacy artifact backfilled with deterministic retrieval scoring.",
            opportunity |-> "Blended score from retrieval=" \o Fmt2(retrieval_total)
                               \o ", viability=" \o Fmt2(viability_total)
                               \o ", expiration=" \o Fmt2(expiration_total) \o "."]]
    @@ patent

\* the record with its viability scorecard, computed if it has none
LegacyViability(patent, as_of_date) ==
    IF "viability_scorecard" \in DOMAIN patent THEN patent
    ELSE WithViability(patent, compute_viability_scorecard(patent, <<>>, as_of_date), TRUE)

\* the rest of the loop body, from the scorecards on
LegacyScored(patent, as_of_date) ==
    WithLegacyExplanations(
        WithScores(WithOpportunity(patent, FALSE, FALLBACK_SEARCH_CONFIG.scoring_weights,
                                   as_of_date)),
        RetrievalTotal(patent), ViabilityTotal(patent),
        expiration_confidence_score(patent, as_of_date))

\* the loop body of _score_legacy_patents for a reranked record
LegacyOne(patent, as_of_date) == LegacyScored(LegacyViability(patent, as_of_date), as_of_date)

\* the loop over the reranked records and the sort
LegacyEnriched(ranked_records, as_of_date) ==
    SortEnriched(List([i \in 1..Len(ranked_records) |->
                          LegacyOne(ranked_records[i], as_of_date)]))

\* _score_legacy_patents(patents) on the day as_of_date
_score_legacy_patents(patents, as_of_date) ==
    IF patents = <<>> THEN <<>>
    ELSE LegacyEnriched(
             rerank_patent_candidates_v2(
                 List([i \in 1..Len(patents) |->
                          patents[i] @@ [_retrieval_pass_hits |-> <<"single_pass">>]]),
                 FALLBACK_SEARCH_CONFIG, as_of_date),
             as_of_date)

\* all("retrieval_scorecard" in patent and "viability_scorecard" in patent ...)
HasV2Scores(patents) ==
    \A i \in 1..Len(patents) :
        {"retrieval_scorecard", "viability_scorecard"} \subseteq DOMAIN patents[i]

\* what get_enriched_patents computes when the cache does not answer
Enrich(patents, as_of_date) ==
    IF HasV2Scores(patents)
    THEN SortEnriched(List([i \in 1..Len(patents) |-> EnrichOne(patents[i], as_of_date)]))
    ELSE _score_legacy_patents(patents, as_of_date)

\* get_enriched_patents(): <<the list returned, the cache afterwards>>
get_enriched_patents(self, as_of_date) ==
    IF self._enriched_cache # <<>> /\ Len(self._enriched_cache) = Len(self.patents)
    THEN <<self._enriched_cache, self._enriched_cache>>
    ELSE IF self.patents = <<>> THEN <<<<>>, self._enriched_cache>>
    ELSE <<Enrich(self.patents, as_of_date), Enrich(self.patents, as_of_date)>>

\* the configuration of the run that wrote an artifact
ArtifactConfig(override) ==
    _resolve_patent_search_config(MaxPairs, MaxPerPage, MaxRetries, TRUE, FALSE, FALSE,
                                  override)

\* the record discover_patents returned for one raw record on 2026-01-15
Discovered(raw, override) ==
    DiscoverFrom(<<<<"strict_intent", raw>>>>, ArtifactConfig(override), "2026-01-15").records[1]

\* the record with the four further keys of REQUIRED_VIABILITY_KEYS in its
\* viability scorecard
TenKeys(patent) ==
    [patent EXCEPT !.viability_scorecard =
        @ @@ [marketability |-> 5000, viral_potential |-> 5000, ease_of_use |-> 5000,
              real_world_impact |-> 5000]]

\* the record without a field
Dropped(patent, field) == [k \in DOMAIN patent \ {field} |-> patent[k]]

\* the records of the artifacts: discovered with default and with overridden
\* weights; the same with all required viability keys; with an older
\* scoring_version; without opportunity_score_v2; a record without scorecards,
\* the same with a stored opportunity_score_v2, and one not yet expired
ArtifactRecords ==
    <<Discovered(RawA, NoOverride),
      Discovered(RawA, WildOverride),
      TenKeys(Discovered(RawA, NoOverride)),
      TenKeys(Discovered(RawB, WildOverride)),
      [TenKeys(Discovered(RawA, NoOverride)) EXCEPT !.scoring_version = "v1.0.0"],
      Dropped(TenKeys(Discovered(RawB, NoOverride)), "opportunity_score_v2"),
      normalize_patent_record(RawA),
      normalize_patent_record(RawB) @@ [opportunity_score_v2 |-> 1230],
      normalize_patent_record(RawE)>>

\* the longest artifact
MaxArtifact == 2

\* the artifacts in the vault
Artifacts ==
    UNION { { [i \in 1..n |-> ArtifactRecords[s[i]]] : s \in [1..n -> 1..Len(ArtifactRecords)] } :
              n \in 0..MaxArtifact }

\* PatentAnalyzer.__init__ and load_latest_discoveries over an artifact
Loaded_patents(patents) == [patents |-> patents, _enriched_cache |-> <<>>]

\* get_enriched_patents()
GetEnrichedPatents ==
    /\ pc = "analyzer"
    /\ call' = [fn |-> "get_enriched_patents", patents |-> analyzer.patents]
    /\ ret' = get_enriched_patents(analyzer, today)[1]
    /\ analyzer' = [analyzer EXCEPT !._enriched_cache = get_enriched_patents(analyzer, today)[2]]
    /\ UNCHANGED <<pc, stack, framework, locals, history, tables>>
    /\ UNCHANGED discoveryVars

\* load_latest_discoveries(): another artifact is the largest of the vault
LoadLatestDiscoveries ==
    /\ pc = "analyzer"
    /\ call # NoCall
    /\ \E patents \in Artifacts : analyzer' = Loaded_patents(patents)
    /\ call' = NoCall
    /\ ret' = None
    /\ UNCHANGED <<pc, stack, framework, locals, history, tables>>
    /\ UNCHANGED discoveryVars

InitAnalyzer ==
    /\ pc = "analyzer"
    /\ \E patents \in Artifacts : analyzer = Loaded_patents(patents)
    /\ stack = NoStack
    /\ call = NoCall
    /\ ret = None
    /\ framework = NewFramework
    /\ locals = NoLocals
    /\ history = <<>>
    /\ tables = DefaultTables
    /\ cfg = _resolve_patent_search_config(1, 1, 1, TRUE, FALSE, FALSE, NoOverride)
    /\ today = "2026-01-15"
    /\ index = <<>>
    /\ passIdx = 0
    /\ fetch = NoFetch
    /\ requests = <<>>
    /\ pages = <<>>
    /\ fetch_result = NoResult
    /\ pass_records = <<>>
    /\ pass_counts = <<>>
    /\ diagnostics = _base_diagnostics(cfg, <<>>)
    /\ normalized = <<>>
    /\ filtered = <<>>
    /\ ranked = <<>>
    /\ scored = <<>>
    /\ results = <<>>
    /\ error = NoError
    /\ analysis = <<>>

NextAnalyzer ==
    \/ GetEnrichedPatents
    \/ LoadLatestDiscoveries

SpecAnalyzer == InitAnalyzer /\ [][NextAnalyzer]_vars

-----------------------------------------------------------------------------
(* is_likely_expired and expiration_confidence_score on one record, and
   discover_patents on the pass that returned it *)

\* filing and grant dates of a record: missing, empty, malformed, 7300, 7299,
\* 5475 and 5474 days before each of the as-of dates, a day to come, and a
\* date strptime accepts without its leading zeros
ExpiryDates ==
    {None, "", "not a date", "2030-01-01", "2006-1-20",
     "2006-01-20", "2006-01-21", "2011-01-19", "2011-01-20",
     "2004-03-05", "2004-03-06", "2009-03-04", "2009-03-05"}

\* the as-of dates the dates above are counted from
ExpiryAsOf == {"2026-01-15", "2024-02-29"}

ExpiryTypes == {None, "utility", "design", "Design", "plant"}

\* the record with these dates as the service returns it
ExpiryRaw(filed, granted, type) == RawRecord("US1", "Gas sensor", "", granted, type, filed, "4")

\* is_likely_expired(record, as_of_date)
IsLikelyExpired ==
    /\ pc = "expiry_filter"
    /\ ret' = [likely |-> is_likely_expired(call.record, today)]
    /\ pc' = "expiry_score"
    /\ UNCHANGED <<analyzer, stack, framework, locals, history, call, tables>>
    /\ UNCHANGED discoveryVars

\* expiration_confidence_score(record, as_of_date)
ExpirationConfidenceScore ==
    /\ pc = "expiry_score"
    /\ ret' = [likely |-> ret.likely,
               score  |-> expiration_confidence_score(call.record, today)]
    /\ pc' = "expiry_discover"
    /\ UNCHANGED <<analyzer, stack, framework, locals, history, call, tables>>
    /\ UNCHANGED discoveryVars

\* discover_patents from the pass records on, the record being what the
\* primary pass returned
DiscoverOne ==
    /\ pc = "expiry_discover"
    /\ ret' = [likely  |-> ret.likely,
               score   |-> ret.score,
               outcome |-> DiscoverFrom(<<<<"strict_intent", call.raw>>>>, cfg, today)]
    /\ pc' = "done"
    /\ UNCHANGED <<analyzer, stack, framework, locals, history, call, tables>>
    /\ UNCHANGED discoveryVars

InitExpiry ==
    /\ pc = "expiry_filter"
    /\ \E filed \in ExpiryDates, granted \in ExpiryDates, type \in ExpiryTypes :
          call = [fn     |-> "is_likely_expired",
                  raw    |-> ExpiryRaw(filed, granted, type),
                  record |-> normalize_patent_record(ExpiryRaw(filed, granted, type))]
    /\ today \in ExpiryAsOf
    /\ \E require_likely_expired \in BOOLEAN :
          cfg = _resolve_patent_search_config(1, 1, 1, TRUE, require_likely_expired, FALSE,
                                              NoOverride)
    /\ ret = None
    /\ analyzer = NoAnalyzer
    /\ stack = NoStack
    /\ framework = NewFramework
    /\ locals = NoLocals
    /\ history = <<>>
    /\ tables = DefaultTables
    /\ index = <<>>
    /\ passIdx = 0
    /\ fetch = NoFetch
    /\ requests = <<>>
    /\ pages = <<>>
    /\ fetch_result = NoResult
    /\ pass_records = <<>>
    /\ pass_counts = <<>>
    /\ diagnostics = _base_diagnostics(cfg, <<>>)
    /\ normalized = <<>>
    /\ filtered = <<>>
    /\ ranked = <<>>
    /\ scored = <<>>
    /\ results = <<>>
    /\ error = NoError
    /\ analysis = <<>>

NextExpiry ==
    \/ IsLikelyExpired
    \/ ExpirationConfidenceScore
    \/ DiscoverOne

SpecExpiry == InitExpiry /\ [][NextExpiry]_vars

-----------------------------------------------------------------------------
(* C1: deduplication *)

\* the identifier of the i-th input record, "" if it has none
InputNumber(i) == normalize_patent_record(pass_records[i][2]).patent_number

\* the dedupe key of the i-th input record
InputKey(i) == DedupeKey(normalize_patent_record(pass_records[i][2]))

\* the output records that carry the identifier n
Carriers(n) == { j \in 1..Len(normalized) : normalized[j].patent_number = n }

\* deduplication has run
Deduped ==
    \/ pc \in {"filter", "rerank", "score", "limit", "returned", "analyzed"}
    \/ pc = "raised" /\ error.code = "zero_results"

\* the first input record with the key of record i has no identifier
KeyTakenByUnnumbered(i) ==
    \E h \in 1..i : /\ InputKey(h) = InputKey(i)
                     /\ InputNumber(h) = ""
                     /\ \A g \in 1..(h - 1) : InputKey(g) # InputKey(i)

\* C1 as claimed: the output of _dedupe_and_normalize_records is no longer
\* than its input and every identifier of the input is on exactly one output
\* record, and the list discover_patents returns on the multi-pass path has no
\* two records with the same patent_number.
C1_AsClaimed ==
    /\ Deduped =>
          /\ Len(normalized) <= Len(pass_records)
          /\ \A i \in 1..Len(pass_records) :
                InputNumber(i) # "" => Cardinality(Carriers(InputNumber(i))) = 1
    /\ (pc = "returned" /\ cfg.enable_v2_pipeline /\ diagnostics.status = "ok") =>
          \A j, k \in 1..Len(results) :
              j # k => results[j].patent_number # results[k].patent_number

\* C1 amended: the output is no longer than the input; no two output records
\* share a non-empty identifier; a non-empty identifier of the input is on
\* exactly one output record unless the first input record with that dedupe
\* key is a record without identifier (then it is on none); and the list
\* discover_patents returns on the multi-pass path has no two records with the
\* same non-empty patent_number.
C1_Dedupe ==
    /\ Deduped =>
          /\ Len(normalized) <= Len(pass_records)
          /\ \A j, k \in 1..Len(normalized) :
                (j # k /\ normalized[j].patent_number = normalized[k].patent_number)
                   => normalized[j].patent_number = ""
          /\ \A i \in 1..Len(pass_records) :
                InputNumber(i) # "" =>
                   Cardinality(Carriers(InputNumber(i)))
                      = (IF KeyTakenByUnnumbered(i) THEN 0 ELSE 1)
    /\ (pc = "returned" /\ cfg.enable_v2_pipeline /\ diagnostics.status = "ok") =>
          \A j, k \in 1..Len(results) :
              (j # k /\ results[j].patent_number = results[k].patent_number)
                 => results[j].patent_number = ""

\* discover_patents returned two candidates after deduplication merged an
\* identifier found by two passes and kept two records without identifier
C1_Witness ==
    /\ pc = "returned"
    /\ Len(results) >= 2
    /\ \E i, k \in 1..Len(pass_records) :
          i # k /\ InputNumber(i) # "" /\ InputNumber(i) = InputNumber(k)
                /\ pass_records[i][1] # pass_records[k][1]
    /\ Len(normalized) < Len(pass_records)

-----------------------------------------------------------------------------
(* C2: the order rerank_patent_candidates_v2 returns *)

\* a <= b on Python strings
StrLeq(a, b) == a = b \/ StrLess(a, b)

RankTotal(item)  == item.retrieval_scorecard.total
RankDate(item)   == Or(item.patent_date, "")
RankNumber(item) == Or(item.patent_number, "")

\* a may stand before b: total descending, then grant date descending, then
\* identifier ascending
OrderedAsClaimed(a, b) ==
    \/ RankTotal(a) > RankTotal(b)
    \/ RankTotal(a) = RankTotal(b) /\ StrLess(RankDate(b), RankDate(a))
    \/ RankTotal(a) = RankTotal(b) /\ RankDate(a) = RankDate(b)
          /\ StrLeq(RankNumber(a), RankNumber(b))

\* a may stand before b: total descending, then grant date descending, then
\* identifier descending
OrderedDescending(a, b) ==
    \/ RankTotal(a) > RankTotal(b)
    \/ RankTotal(a) = RankTotal(b) /\ StrLess(RankDate(b), RankDate(a))
    \/ RankTotal(a) = RankTotal(b) /\ RankDate(a) = RankDate(b)
          /\ StrLeq(RankNumber(b), RankNumber(a))

\* rerank_patent_candidates_v2 has returned
Reranked == pc \in {"score", "limit", "returned", "analyzed"}

\* C2 as claimed: rerank_patent_candidates_v2 returns the candidates ordered by
\* retrieval total descending, then grant date descending, then identifier
\* ascending.
C2_AsClaimed ==
    Reranked =>
       /\ Len(ranked) = Len(filtered)
       /\ \A j, k \in 1..Len(ranked) : j < k => OrderedAsClaimed(ranked[j], ranked[k])

\* C2 amended: rerank_patent_candidates_v2 returns the candidates ordered by
\* retrieval total descending, then grant date descending, then identifier
\* descending (all three by the one reversed sort, missing dates and
\* identifiers counting as the empty string).
C2_RerankOrder ==
    Reranked =>
       /\ Len(ranked) = Len(filtered)
       /\ \A j, k \in 1..Len(ranked) : j < k => OrderedDescending(ranked[j], ranked[k])

\* the reranked list holds two candidates tied in total and grant date under
\* different identifiers, and a candidate with another total
C2_Witness ==
    /\ Reranked
    /\ \E j, k \in 1..Len(ranked) :
          /\ RankTotal(ranked[j]) = RankTotal(ranked[k])
          /\ RankDate(ranked[j]) = RankDate(ranked[k])
          /\ RankNumber(ranked[j]) # RankNumber(ranked[k])
    /\ \E j, k \in 1..Len(ranked) : RankTotal(ranked[j]) # RankTotal(ranked[k])

-----------------------------------------------------------------------------
(* C3: rankings are non-increasing in their score *)

\* C3: after analyze_patent_dataset, integrated_score is non-increasing along
\* the returned list and the k-th result carries ranking_position = k (so the
\* positions are exactly 1..n); and the list discover_patents returns is
\* non-increasing in opportunity_score_v2.
C3_Ranking ==
    /\ pc = "analyzed" =>
          /\ Len(analysis) = Len(results)
          /\ \A k \in 1..Len(analysis) : analysis[k].ranking_position = k
          /\ \A j, k \in 1..Len(analysis) :
                j < k => analysis[j].integrated_score >= analysis[k].integrated_score
    /\ pc \in {"returned", "analyzed"} =>
          \A j, k \in 1..Len(results) :
              j < k => OpportunityOf(results[j]) >= OpportunityOf(results[k])

\* analyze_patent_dataset moved a result with a higher integrated_score in
\* front of the one discover_patents returned first, and discover_patents
\* returned candidates of different opportunity scores
C3_Witness ==
    /\ pc = "analyzed"
    /\ Len(analysis) >= 2
    /\ analysis[1].integrated_score > analysis[Len(analysis)].integrated_score
    /\ analysis[1].patent_number # results[1].patent_number
    /\ OpportunityOf(results[1]) > OpportunityOf(results[Len(results)])

-----------------------------------------------------------------------------
(* C10: every score lies in [0, 10] *)

\* 0 <= score <= 10, in thousandths
InRange(score) == 0 <= score /\ score <= 10000

RetrievalScores ==
    {"title_exact_match", "query_coverage", "semantic_similarity", "expiration_confidence",
     "pass_diversity", "total"}

ViabilityScores ==
    {"market_demand", "build_feasibility", "competition_headroom",
     "differentiation_potential", "commercial_readiness", "total"}

\* C10: for any candidate text, dates and weight overrides, every viability
\* component and the viability total, every retrieval sub-score and the
\* retrieval total, and the blended opportunity score lie in [0, 10].
C10_ScoresInRange ==
    /\ \A i \in 1..Len(ranked) : \A f \in RetrievalScores :
          InRange(ranked[i].retrieval_scorecard[f])
    /\ \A i \in 1..Len(scored) :
          /\ \A f \in RetrievalScores : InRange(scored[i].retrieval_scorecard[f])
          /\ \A f \in ViabilityScores : InRange(scored[i].viability_scorecard[f])
          /\ InRange(scored[i].opportunity_score_v2)

\* under overridden weights above 1 and below 0, a candidate whose nine demand
\* terms put market demand at the upper limit was scored next to a candidate
\* without any text
C10_Witness ==
    /\ cfg.scoring_weights.retrieval > 1000
    /\ cfg.viability_v2.weights.build_feasibility < 0
    /\ \E i \in 1..Len(scored) : scored[i].viability_scorecard.market_demand = 10000
    /\ \E i \in 1..Len(scored) : scored[i].title = "" /\ scored[i].abstract = ""

-----------------------------------------------------------------------------
(* C4: the failure of a retrieval pass *)

\* the fetch of a pass has raised and _discover_raw_records_v2 is to handle it
PassFailure == pc = "fetch_done" /\ cfg.enable_v2_pipeline /\ ~fetch_result.ok

\* the pass is the primary pass or the code is a credential failure
FatalFailure == passIdx = 1 \/ fetch_result.code \in {"missing_api_key", "auth_failed"}

\* what handling the failure does
FailureHandled ==
    PassFailure =>
       IF FatalFailure
       THEN /\ pc' = "except"
            /\ fetch_result' = fetch_result
            /\ passIdx' = passIdx
            /\ normalized' = <<>> /\ results' = <<>>
       ELSE /\ Len(diagnostics'.warnings) = Len(diagnostics.warnings) + 1
            /\ Contains(diagnostics'.warnings[Len(diagnostics'.warnings)],
                        "'" \o PASS_NAMES[passIdx] \o "'")
            /\ pass_counts' = Append(pass_counts, 0)
            /\ pass_records' = pass_records
            /\ IF passIdx < 4
               THEN pc' = "fetch_begin" /\ passIdx' = passIdx + 1
               ELSE pc' = "dedupe"

\* where the propagating error ends: raised by discover_patents under its
\* code, or replaced by the records of the legacy scrape; no pass follows
ErrorPropagates ==
    pc = "except" =>
       /\ pc' \in {"raised", "returned"}
       /\ passIdx' = passIdx /\ requests' = requests
       /\ pc' = "raised" => error'.code = fetch_result.code
       /\ pc' = "returned" =>
             \A i \in 1..Len(results') :
                 results'[i].source_provider = "legacy_google_scrape_fallback"

\* the records tagged with the name of pass i
TaggedBy(i) == { j \in 1..Len(pass_records) : pass_records[j][1] = PASS_NAMES[i] }

-----------------------------------------------------------------------------
(* C5: deduplication after all passes, scoring after deduplication *)

\* retrieval is under way
Retrieving == pc \in {"fetch_begin", "post", "fetch_done", "except"}

\* C5: on the multi-pass path deduplication starts only after each of the
\* four passes has returned or failed, and no candidate is scored before
\* deduplication has finished.
C5_DedupeAfterPasses ==
    cfg.enable_v2_pipeline =>
       /\ Retrieving => normalized = <<>> /\ ranked = <<>> /\ scored = <<>>
       /\ (pc = "dedupe" \/ normalized # <<>>) =>
             /\ Len(pass_counts) = 4
             /\ passIdx = 4
             /\ requests = <<>>
       /\ (ranked # <<>> \/ scored # <<>>) =>
             /\ pc \notin {"dedupe", "filter"}
             /\ diagnostics.deduped_count = Len(normalized)
             /\ normalized # <<>>

\* a candidate found by two passes has been scored with its pass diversity
\* after a pass had failed
C5_Witness ==
    /\ cfg.enable_v2_pipeline
    /\ pc = "score"
    /\ Len(ranked) >= 2
    /\ Len(diagnostics.warnings) >= 1
    /\ \E i \in 1..Len(ranked) :
          /\ Len(ranked[i]._retrieval_pass_hits) = 2
          /\ ranked[i].retrieval_scorecard.pass_diversity = 5000

-----------------------------------------------------------------------------
(* C6: zero results *)

\* C6: when no candidate remains after discovery, deduplication and the
\* likely-expired filter, discover_patents raises zero_results with
\* diagnostics of status failed, filtered_count 0 and a non-empty
\* next_actions; it never returns an empty list.
C6_ZeroResults ==
    /\ pc \in {"rerank", "score", "limit"} => filtered # <<>>
    /\ pc = "returned" => results # <<>>
    /\ (pc = "raised" /\ error.code = "zero_results") =>
          /\ filtered = <<>>
          /\ diagnostics.status = "failed"
          /\ diagnostics.filtered_count = 0
          /\ diagnostics.next_actions # <<>>
    /\ (pc = "raised" /\ error.code # "zero_results") => fetch_result.code = error.code

\* records were found and the likely-expired filter kept none of them
C6_Witness ==
    /\ pc = "raised"
    /\ error.code = "zero_results"
    /\ cfg.require_likely_expired
    /\ Len(normalized) >= 1
    /\ diagnostics.raw_count >= 1

-----------------------------------------------------------------------------
(* C7: failures are classified *)

ErrorCodes ==
    {"missing_api_key", "transport_error", "auth_failed", "schema_error", "zero_results"}

\* the code the cause of the failed fetch calls for: no request was made
\* (no API key), the last request raised, or the status or the body of the
\* last response was refused
CauseCode ==
    IF requests = <<>> THEN "missing_api_key"
    ELSE IF requests[Len(requests)][3] = "raised" THEN "transport_error"
    ELSE IF fetch.diagnostics.http_status \in {<<401>>, <<403>>} THEN "auth_failed"
    ELSE IF fetch.diagnostics.http_status[1] >= 400 THEN "transport_error"
    ELSE "schema_error"

\* C7: every failure of discover_patents caused by the search service or its
\* credentials surfaces as a PatentDiscoveryError with one of the five codes
\* and diagnostics of status failed with at least one entry in errors; every
\* return carries diagnostics of status ok or fallback and a warnings list.
C7_AsClaimed ==
    /\ pc \in {"raised", "crashed"} =>
          /\ error.code \in ErrorCodes
          /\ diagnostics.status = "failed"
          /\ Len(diagnostics.errors) >= 1
    /\ pc = "returned" =>
          /\ diagnostics.status \in {"ok", "fallback"}
          /\ "warnings" \in DOMAIN diagnostics

\* what holds of C7: the failures fetch_patents_patentsview raises itself (no
\* API key, transport failure after the retries, a status of 400 or above, a
\* body that is not JSON, an error flag, no record array) and zero_results
\* surface under their code with diagnostics of status failed and an entry in
\* errors; every return carries status ok or fallback.
ClassifiedFailures ==
    /\ (pc \in {"fetch_done", "except"} /\ ~fetch_result.ok) =>
          /\ fetch_result.code = CauseCode
          /\ fetch_result.diagnostics.status = "failed"
          /\ Len(fetch_result.diagnostics.errors) >= 1
    /\ pc = "raised" =>
          /\ error.code \in ErrorCodes
          /\ diagnostics.status = "failed"
          /\ Len(diagnostics.errors) >= 1
    /\ pc = "returned" =>
          /\ diagnostics.status \in {"ok", "fallback"}
          /\ "warnings" \in DOMAIN diagnostics
          /\ diagnostics.errors = <<>> \/ diagnostics.status = "fallback"

\* a body without a record array failed the primary pass, the legacy scrape
\* failed too, and discover_patents raised schema_error
ClassifiedWitness ==
    /\ pc = "raised"
    /\ error.code = "schema_error"
    /\ cfg.allow_legacy_scrape_fallback
    /\ Len(diagnostics.errors) = 2
    /\ diagnostics.http_status = <<200>>

-----------------------------------------------------------------------------
(* C8: retries of a page request *)

\* max_retries as fetch_patents_patentsview uses it
EffectiveRetries == Max(1, cfg.max_retries)

\* the attempts made for the page of request i
AttemptsOf(i) == { j \in 1..Len(requests) : requests[j][1] = requests[i][1] }

RECURSIVE RecordsAfter(_)
\* the records the first k pages brought
RecordsAfter(k) == IF k = 0 THEN 0 ELSE pages[k][1] + RecordsAfter(k - 1)

\* C8: a transport exception on attempt k < max_retries is followed by another
\* attempt of the same page; the first attempt that yields a response ends the
\* retries of the page and its records are used; if all max_retries attempts
\* raise, the fetch fails with transport_error; no page is attempted more
\* than max_retries times.
C8_Retries ==
    /\ \A i \in 1..Len(requests) :
          /\ Cardinality(AttemptsOf(i)) <= EffectiveRetries
          /\ (requests[i][3] = "raised" /\ requests[i][2] < EffectiveRetries) =>
                IF i < Len(requests)
                THEN /\ requests[i + 1][1] = requests[i][1]
                     /\ requests[i + 1][2] = requests[i][2] + 1
                ELSE /\ pc = "post"
                     /\ fetch.page = requests[i][1]
                     /\ fetch.attempt = requests[i][2] + 1
          /\ (requests[i][3] = "raised" /\ requests[i][2] >= EffectiveRetries) =>
                /\ i = Len(requests)
                /\ pc # "post"
                /\ ~fetch_result.ok
                /\ fetch_result.code = "transport_error"
          /\ requests[i][3] = "responded" =>
                \A j \in (i + 1)..Len(requests) : requests[j][1] > requests[i][1]
    /\ requests # <<>> => Len(fetch.all_records) = RecordsAfter(Len(pages))
    /\ (pc = "fetch_done" /\ fetch_result.ok) =>
          Len(fetch_result.records) = Min(RecordsAfter(Len(pages)), fetch.requested)

\* a request raised, its second attempt brought a page, and the records of
\* the page were returned
C8_Witness ==
    /\ pc = "fetch_done"
    /\ fetch_result.ok
    /\ Len(fetch_result.records) >= 1
    /\ \E i \in 1..(Len(requests) - 1) :
          /\ requests[i][3] = "raised"
          /\ requests[i + 1] = <<requests[i][1], requests[i][2] + 1, "responded">>

-----------------------------------------------------------------------------
(* C9: pagination and the result cap *)

\* a or, if a is none, b
FirstOr(a, b) == IF a # <<>> THEN a ELSE b

RECURSIVE Reported(_)
\* the first total_hits the service reported on the first k pages
Reported(k) == IF k = 0 THEN <<>> ELSE FirstOr(Reported(k - 1), pages[k][2])

\* after k pages there are enough records, or all the hits, or page k was empty
Enough(k, total_hits) ==
    \/ RecordsAfter(k) >= PassRequested
    \/ total_hits # <<>> /\ RecordsAfter(k) >= total_hits[1]
    \/ pages[k][1] = 0

\* the i-th record of the service's result stream for the running pass
Arrival(i) == Stream[((Max(passIdx, 1) - 1 + i - 1) % Len(Stream)) + 1]

\* C9: fetch_patents_patentsview requests pages in increasing order from page
\* 1, issues no further request once the accumulated records are >=
\* num_results or >= the total_hits the service reported or a page came back
\* empty, and returns at most num_results records, the first in arrival
\* order; discover_patents returns at most num_results candidates.
C9_Pagination ==
    /\ requests # <<>> => requests[1][1] = 1
    /\ \A i \in 1..(Len(requests) - 1) :
          requests[i + 1][1] = IF requests[i][3] = "responded" THEN requests[i][1] + 1
                               ELSE requests[i][1]
    /\ \A k \in 1..Len(pages) :
          Enough(k, Reported(k)) =>
             /\ pc # "post"
             /\ \A i \in 1..Len(requests) : requests[i][1] <= k
    /\ (pc = "fetch_done" /\ fetch_result.ok) =>
          /\ Len(fetch_result.records) <= PassRequested
          /\ Len(fetch_result.records) = Min(RecordsAfter(Len(pages)), PassRequested)
          /\ \A i \in 1..Len(fetch_result.records) : fetch_result.records[i] = Arrival(i)
    /\ pc = "returned" => Len(results) <= cfg.num_results

\* the second page brought more records than were still wanted: the fetch
\* stopped and returned the first num_results of the three
C9_Witness ==
    /\ pc = "fetch_done"
    /\ fetch_result.ok
    /\ Len(pages) = 2
    /\ RecordsAfter(2) = 3
    /\ Len(fetch_result.records) = 2
    /\ Reported(2) = <<>>

-----------------------------------------------------------------------------
(* C11: market domain *)

\* the call of the scoring function fn has returned
Done(fn) == pc = "done" /\ call # NoCall /\ call.fn = fn

\* the tokens of the candidate's title and abstract
CandidateTokens(patent) == SeqToSet(tokenize_text(_compose_patent_text(patent)))

\* how many keywords of the domain are among the tokens
DomainCount(domain, tokens) ==
    Cardinality({ k \in MARKET_DOMAIN_TAXONOMY[domain] : k \in tokens })

\* position i of the taxonomy holds the highest count and no earlier position does
FirstHighest(i, tokens) ==
    /\ \A j \in 1..Len(MARKET_DOMAINS) :
          DomainCount(MARKET_DOMAINS[j], tokens) <= DomainCount(MARKET_DOMAINS[i], tokens)
    /\ \A j \in 1..(i - 1) :
          DomainCount(MARKET_DOMAINS[j], tokens) < DomainCount(MARKET_DOMAINS[i], tokens)

\* C11: classify_market_domain returns the taxonomy domain with the highest
\* count of its keywords among the tokens of title and abstract, the first in
\* taxonomy order when several share the highest non-zero count, and
\* "general_sensors" when every count is zero
C11_MarketDomain ==
    Done("classify_market_domain") =>
        LET tokens == CandidateTokens(call.patent)
        IN  IF \A j \in 1..Len(MARKET_DOMAINS) : DomainCount(MARKET_DOMAINS[j], tokens) = 0
            THEN ret[1] = "general_sensors"
            ELSE \E i \in 1..Len(MARKET_DOMAINS) :
                    /\ FirstHighest(i, tokens)
                    /\ ret[1] = MARKET_DOMAINS[i]

\* a candidate on which three domains share the highest count is given the first
C11_Witness ==
    /\ Done("classify_market_domain")
    /\ CandidateTokens(call.patent) = {"wearable", "gas", "sensor"}
    /\ ret[1] = "healthcare_wearables"
    /\ ret[2]["industrial_safety"] = 1
    /\ ret[2]["environmental_monitoring"] = 1

-----------------------------------------------------------------------------
(* C12: weight overrides *)

\* used is the default table with exactly the recognized keys of the override
\* replaced by the supplied values
ReplacesRecognized(used, defaults, override) ==
    /\ DOMAIN used = DOMAIN defaults
    /\ \A k \in DOMAIN defaults :
          used[k] = IF k \in DOMAIN override THEN override[k] ELSE defaults[k]

\* the weighted sum of scores under the weights the claim expects, clamped to
\* 0..10 and rounded to thousandths
ExpectedTotal(scores, defaults, override) ==
    RoundDiv(Max(0, Min(10000000,
                 SumOver([k \in DOMAIN defaults |->
                             scores[k] * (IF k \in DOMAIN override THEN override[k]
                                          ELSE defaults[k])],
                         DOMAIN defaults))),
             1000)

\* C12: with weight overrides the weights used by compute_viability_scorecard,
\* compute_opportunity_score_v2 and rerank_patent_candidates_v2 are the
\* defaults with only the recognized keys replaced by the supplied values
\* (unrecognized keys ignored, the other weights not renormalized), the totals
\* are the weighted sums under those weights, and the module-level default
\* tables are unchanged by the call
C12_WeightOverrides ==
    /\ Done("compute_viability_scorecard") =>
          /\ ReplacesRecognized(ret.weights, DEFAULT_VIABILITY_COMPONENT_WEIGHTS, call.weights)
          /\ ret.components.total =
                ExpectedTotal(ret.components, DEFAULT_VIABILITY_COMPONENT_WEIGHTS,
                              call.weights)
          /\ tables = DefaultTables
    /\ Done("compute_opportunity_score_v2") =>
          /\ ret = ExpectedTotal([retrieval  |-> call.retrieval_total,
                                  viability  |-> call.viability_total,
                                  expiration |-> call.expiration_confidence],
                                 DEFAULT_OPPORTUNITY_WEIGHTS, call.scoring_weights)
          /\ tables = DefaultTables
    /\ Done("rerank_patent_candidates_v2") =>
          /\ Len(ret) = 1
          /\ ReplacesRecognized(ret[1].retrieval_scorecard.weights,
                                DEFAULT_RETRIEVAL_SCORE_WEIGHTS, call.score_weights)
          /\ ret[1].retrieval_scorecard.total =
                ExpectedTotal(ret[1].retrieval_scorecard, DEFAULT_RETRIEVAL_SCORE_WEIGHTS,
                              call.score_weights)
          /\ tables = DefaultTables

\* a scorecard computed under an override with two recognized keys and an
\* unrecognized one: two weights replaced, three kept, a total that differs
\* from the total under the defaults
C12_Witness ==
    /\ Done("compute_viability_scorecard")
    /\ "novelty" \in DOMAIN call.weights
    /\ ret.weights.market_demand = 0
    /\ ret.weights.build_feasibility = -1000
    /\ ret.weights.competition_headroom = 180
    /\ ret.components.total # ExpectedTotal(ret.components,
                                            DEFAULT_VIABILITY_COMPONENT_WEIGHTS, <<>>)

-----------------------------------------------------------------------------
(* C13: expiration confidence at 20 and at 10 years *)

\* the candidate of the call was filed exactly n calendar years before the
\* as-of date, and the score has been returned
FiledYearsBefore(n) == Done("expiration_confidence_score") /\ call.years = n

\* C13: expiration_confidence_score returns exactly 10.0 for a filing date
\* exactly 20 calendar years before the as-of date and exactly 5.0 for a filing
\* date exactly 10 calendar years before it
C13_AsClaimed ==
    /\ FiledYearsBefore(20) => ret = 10000
    /\ FiledYearsBefore(10) => ret = 5000

\* the half of C13 the code meets: 20 calendar years give exactly 10.0
TwentyYearsGiveTen == FiledYearsBefore(20) => ret = 10000

\* what the code returns at 10 calendar years: the leap days among the 3652 or
\* 3653 days are counted as parts of a year of 365 days
TenYearsGiveMore == FiledYearsBefore(10) => ret \in {5003, 5004}

\* a candidate filed on 2016-01-15 and scored as of 2026-01-15
TenYearsWitness ==
    /\ FiledYearsBefore(10)
    /\ call.patent.filing_date = "2016-01-15"
    /\ ret = 5004

-----------------------------------------------------------------------------
(* C14: keyword expansion *)

\* the synonyms of a token in table order
Synonyms(token) ==
    IF token \in DOMAIN KEYWORD_EXPANSION_MAP THEN KEYWORD_EXPANSION_MAP[token] ELSE <<>>

\* a token followed by its synonyms, for each token of the keyword in turn
TokenTerms(tokens) ==
    ConcatSeqs([t \in 1..Len(tokens) |-> <<tokens[t]>> \o Synonyms(tokens[t])],
               1, Len(tokens))

\* the terms a keyword brings, in the order they are seen: the keyword, then
\* its tokens, each followed by its synonyms; nothing for an empty keyword
KeywordTerms(base) == IF base = "" THEN <<>> ELSE <<base>> \o TokenTerms(tokenize_text(base))

\* all terms of a keyword list in the order they are seen
SeenTerms(keywords) ==
    ConcatSeqs([i \in 1..Len(keywords) |-> KeywordTerms(Lower(Strip(Or(keywords[i], ""))))],
               1, Len(keywords))

RECURSIVE FirstOccurrences(_, _)
\* the terms at the positions where they are seen for the first time
FirstOccurrences(terms, i) ==
    IF i > Len(terms) THEN <<>>
    ELSE (IF \E j \in 1..(i - 1) : terms[j] = terms[i] THEN <<>> ELSE <<terms[i]>>)
         \o FirstOccurrences(terms, i + 1)

\* the first-seen order of a keyword list
FirstSeenOrder(keywords) == FirstOccurrences(SeenTerms(keywords), 1)

IsPrefixOf(short, long) ==
    /\ Len(short) <= Len(long)
    /\ \A i \in 1..Len(short) : short[i] = long[i]

\* C14: expand_keywords_for_v2 returns a duplicate-free list of lowercased
\* terms, no longer than max_expanded_keywords (a size, 0 or more), that is a
\* prefix of the first-seen order (each keyword, then its tokens, each token
\* followed by its synonyms in table order), cut by nothing but the cap
C14_Expansion ==
    Done("expand_keywords_for_v2") =>
        /\ \A i \in 1..Len(ret), j \in 1..Len(ret) : ret[i] = ret[j] => i = j
        /\ \A i \in 1..Len(ret) : ret[i] = Lower(ret[i]) /\ ret[i] # ""
        /\ Len(ret) <= call.max_expanded_keywords
        /\ IsPrefixOf(ret, FirstSeenOrder(call.keywords))
        /\ Len(ret) = Min(call.max_expanded_keywords, Len(FirstSeenOrder(call.keywords)))

\* "Gas Sensor" and " soil " under a cap of 7: the expansion of the first
\* keyword alone has 10 terms, the list is cut inside the synonyms of "sensor"
C14_Witness ==
    /\ Done("expand_keywords_for_v2")
    /\ call.keywords = <<"Gas Sensor", " soil ">>
    /\ call.max_expanded_keywords = 7
    /\ ret = <<"gas sensor", "gas", "vapor", "fume", "air", "sensor", "detector">>

-----------------------------------------------------------------------------
(* C15: scenario ordering *)

\* C15, as claimed: whatever the benchmark, macro signals, profile and
\* candidate, estimate_financial_metrics returns
\* npv_optimistic >= npv_base >= npv_pessimistic.
C15_AsClaimed ==
    Done("estimate_financial_metrics") =>
        /\ ret.npv_optimistic >= ret.npv_base
        /\ ret.npv_base >= ret.npv_pessimistic

\* the ordering does hold where the operating drag is small beside the revenue
C15_OrderedCase ==
    /\ Done("estimate_financial_metrics")
    /\ call.manufacturing_profile.opex_annual_change = 15000
    /\ ret.npv_optimistic > ret.npv_base
    /\ ret.npv_base > ret.npv_pessimistic

\* and is reversed where the drag dominates: the optimistic scenario discounts
\* the same losses at a lower rate
C15_ReversedCase ==
    /\ Done("estimate_financial_metrics")
    /\ call.manufacturing_profile.opex_annual_change = 500000
    /\ ret.npv_optimistic < ret.npv_base
    /\ ret.npv_base < ret.npv_pessimistic

-----------------------------------------------------------------------------
(* C16: Monte Carlo reproducibility *)

\* the candidate identifier the seed is derived from
Identifier(patent) == GetStr(patent, "patent_number")

SameEnvelope(first, second) ==
    /\ first.risk_adjusted_npv_p10 = second.risk_adjusted_npv_p10
    /\ first.risk_adjusted_npv_p90 = second.risk_adjusted_npv_p90

-----------------------------------------------------------------------------
(* C17: the bisection of the IRR estimate *)

\* a rate of the bracket in units of 2^-28, exact for rates no smaller than 2^-14
Fixed(x) == IF x.m = 0 THEN 0 ELSE IF x.e >= -28 THEN x.m * Pow2(x.e + 28) ELSE IF -28 - x.e > 30 THEN 0 ELSE RoundDiv(x.m, Pow2(-28 - x.e))

\* the rounding unit of the floating-point format at a value of n units
Ulp(n) == Pow2(Max(0, BitLength(Abs(n)) - 15))

\* the loop of _estimate_internal_rate_percent is running, called directly or by the estimate
Bisecting == pc = "bisect"

ExampleFlows == <<Float(-100), Float(30), Float(30), Float(30), Float(30)>>

\* at most 80 passes are begun, and the interval stays inside [-0.95, 2.0];
\* a returned rate is within [-95, 200] percent; the example's is in (0, 35)
C17_Bounded ==
    /\ Bisecting =>
          /\ locals.iterations <= 80
          /\ Fixed(Ratio(-95, 100)) <= Fixed(locals.low)
          /\ Fixed(locals.low) <= Fixed(locals.high)
          /\ Fixed(locals.high) <= Fixed(Float(2))
    /\ (pc \in {"done", "valuation"} /\ locals # NoLocals) =>
          /\ locals.returned
          /\ locals.iterations <= 80
          /\ Scaled(locals.value, 1000) >= -95000
          /\ Scaled(locals.value, 1000) <= 200000
    /\ Done("_estimate_internal_rate_percent") =>
          /\ ret = Scaled(locals.value, 1000)
          /\ call.cash_flows = ExampleFlows => (0 < ret /\ ret < 35000)

\* a pass that does not return keeps one end of the interval and moves the
\* other to the midpoint: the new width is half the old one, up to the
\* rounding of the midpoint (one unit in the last place of the larger end)
C17_Halves ==
    (Bisecting /\ pc' = "bisect") =>
        /\ locals'.iterations = locals.iterations + 1
        /\ Fixed(locals.low) <= Fixed(locals'.low)
        /\ Fixed(locals'.low) <= Fixed(locals'.high)
        /\ Fixed(locals'.high) <= Fixed(locals.high)
        /\ locals'.low = locals.low \/ locals'.high = locals.high
        /\ Abs(2 * (Fixed(locals'.high) - Fixed(locals'.low)) - (Fixed(locals.high) - Fixed(locals.low))) <= Ulp(Max(Abs(Fixed(locals.low)), Abs(Fixed(locals.high)))) + 2

\* C17: _estimate_internal_rate_percent terminates on every cash-flow list
\* after at most 80 bisection iterations, the search interval stays inside
\* [-95%, 200%] and halves each iteration, and the returned rate is within
\* [-95, 200] percent; for [-100, 30, 30, 30, 30] it lies strictly between
\* 0% and 35%.
C17_Bisection ==
    /\ []C17_Bounded
    /\ [][C17_Halves]_vars
    /\ Bisecting ~> ~Bisecting

\* the example's rate returned, after passes that narrowed the interval
C17_Witness ==
    /\ Done("_estimate_internal_rate_percent")
    /\ call.cash_flows = ExampleFlows
    /\ locals.iterations > 10
    /\ Fixed(locals.high) - Fixed(locals.low) < Pow2(15)
    /\ 0 < ret /\ ret < 35000

-----------------------------------------------------------------------------
(* C18: sentinels on degenerate cash flows *)

\* the NPV has the same sign at both ends of the bracket
SameSignAtEnds(cash_flows) == FSign(npv(cash_flows, Ratio(-95, 100))) * FSign(npv(cash_flows, Float(2))) > 0

\* fewer than two flows, an initial flow that is not negative, no later
\* positive flow, or no change of sign over the bracket
Degenerate(cash_flows) ==
    \/ Len(cash_flows) < 2
    \/ FSign(cash_flows[1]) >= 0
    \/ \A i \in 2..Len(cash_flows) : FSign(cash_flows[i]) <= 0
    \/ SameSignAtEnds(cash_flows)

RECURSIVE CumulativeCashFlow(_, _)
\* the base cash flows of years 0..year added up, the year-0 outlay included
CumulativeCashFlow(base_cash_flows, year) == IF year = 0 THEN base_cash_flows[1] ELSE CumulativeCashFlow(base_cash_flows, year - 1) + base_cash_flows[year + 1]

\* the years of the horizon by which the outlay has been recovered
RecoveredYears(base_cash_flows) == {year \in 1..years : CumulativeCashFlow(base_cash_flows, year) >= 0}

FirstRecoveredYear(base_cash_flows) == IF RecoveredYears(base_cash_flows) = {} THEN 999 ELSE CHOOSE year \in RecoveredYears(base_cash_flows) : \A other \in RecoveredYears(base_cash_flows) : year <= other

\* C18: on degenerate cash flows the valuation returns sentinels and does
\* not raise: the IRR is exactly 0 when there are fewer than two flows, the
\* initial flow is not negative, no later flow is positive, or the NPV has
\* the same sign at both ends of the bracket; the payback period is the
\* first year at which the cumulative base cash flow including the year-0
\* outlay is >= 0, and 999 when that never happens within the 10 years.
C18_Sentinels ==
    /\ (Done("_estimate_internal_rate_percent") /\ Degenerate(call.cash_flows)) =>
          /\ ret = 0
          /\ locals.value = FloatZero
          /\ locals.iterations = 0
    /\ Done("estimate_financial_metrics") =>
          /\ Len(locals.caller.base_cash_flows) = years + 1
          /\ ret.payback_period_years = FirstRecoveredYear(locals.caller.base_cash_flows)
          /\ Degenerate(locals.cash_flows) => ret.irr_percent = 0

\* an estimate whose base case never earns anything: both sentinels returned
C18_Witness ==
    /\ Done("estimate_financial_metrics")
    /\ \A i \in 2..Len(locals.cash_flows) : FSign(locals.cash_flows[i]) <= 0
    /\ RecoveredYears(locals.caller.base_cash_flows) = {}
    /\ ret.payback_period_years = 999
    /\ ret.irr_percent = 0

\* a direct call on flows whose NPV is positive over the whole bracket
C18_NoBracketCase ==
    /\ Done("_estimate_internal_rate_percent")
    /\ Len(call.cash_flows) >= 2
    /\ FSign(call.cash_flows[1]) < 0
    /\ \E i \in 2..Len(call.cash_flows) : FSign(call.cash_flows[i]) > 0
    /\ SameSignAtEnds(call.cash_flows)
    /\ ret = 0

\* an estimate that recovers its outlay within the horizon
C18_RecoveredCase ==
    /\ Done("estimate_financial_metrics")
    /\ ret.payback_period_years \in 1..years
    /\ ret.irr_percent > 0

-----------------------------------------------------------------------------
(* C19: the triangulated valuation range *)

\* C19: for every input the valuation returned by estimate_financial_metrics
\* is ordered and not negative at the low end,
\* 0 <= valuation_low <= valuation_mid <= valuation_high, whatever the signs
\* and order of the scenario NPVs and the Monte Carlo percentiles.
C19_OrderedRange ==
    Done("estimate_financial_metrics") =>
        /\ 0 <= ret.valuation_low
        /\ ret.valuation_low <= ret.valuation_mid
        /\ ret.valuation_mid <= ret.valuation_high

\* a range returned where every scenario NPV and both percentiles are
\* negative and the scenarios are in reverse order
C19_Witness ==
    /\ Done("estimate_financial_metrics")
    /\ ret.npv_optimistic < ret.npv_base
    /\ ret.npv_base < ret.npv_pessimistic
    /\ ret.npv_pessimistic < 0
    /\ ret.risk_adjusted_npv_p90 < 0
    /\ ret.valuation_low = 0
    /\ 0 < ret.valuation_mid
    /\ ret.valuation_mid < ret.valuation_high

\* a range whose low end is a positive scenario NPV or percentile
C19_PositiveLowCase ==
    /\ Done("estimate_financial_metrics")
    /\ 0 < ret.valuation_low
    /\ ret.valuation_low = Min(ret.npv_pessimistic, ret.risk_adjusted_npv_p10)
    /\ ret.valuation_low < ret.valuation_mid

-----------------------------------------------------------------------------
(* C20: the confidence level *)

\* the result has all four of its parts
Complete(result) == \A part \in {result.technical_score, result.manufacturing_profile, result.financial_metrics, result.strategic_assessment} : part # Missing

\* C20, as claimed: the confidence level returned by
\* compute_integrated_score is within [0.45, 0.92] for every result it is
\* called on, including results with a part missing.
C20_AsClaimed ==
    Done("compute_integrated_score") =>
        /\ 4500 <= ret[2]
        /\ ret[2] <= 9200

\* C20, amended: the confidence level is within [0.45, 0.92] for every
\* result whose technical, manufacturing, financial and strategic parts are
\* all present; for a result with a part missing the call returns the fixed
\* pair (0.0, 0.3).
C20_Confidence ==
    Done("compute_integrated_score") =>
        IF Complete(call.result)
        THEN 4500 <= ret[2] /\ ret[2] <= 9200
        ELSE ret = <<0, 3000>>

\* a complete result whose spread is many times its base NPV: the clip sets
\* the confidence to 0.45
C20_Witness ==
    /\ Done("compute_integrated_score")
    /\ Complete(call.result)
    /\ call.result.financial_metrics.risk_adjusted_npv_p90 - call.result.financial_metrics.risk_adjusted_npv_p10 > 3 * Abs(call.result.financial_metrics.npv_base)
    /\ ret[2] = 4500
    /\ ret[1] > 0

\* a result without its financial part: confidence 0.3
C20_MissingCase ==
    /\ Done("compute_integrated_score")
    /\ call.result.financial_metrics = Missing
    /\ call.result.technical_score # Missing
    /\ ret = <<0, 3000>>

\* a complete result with a narrow spread: confidence strictly inside the range
C20_InsideCase ==
    /\ Done("compute_integrated_score")
    /\ Complete(call.result)
    /\ 4500 < ret[2] /\ ret[2] < 8800

-----------------------------------------------------------------------------
(* C21: a second run on the same pass records and configuration *)

\* the second run has finished
Repeated == pc = "repeated"

\* the second run returned the records, in the order, or raised the error, of
\* the first
SameOutcome == ret.records = results /\ ret.code = error.code

C21_LaterDayDiffers == Repeated /\ call.today # today /\ ret.records # results

-----------------------------------------------------------------------------
(* C22: what the scoring stages write *)

\* the fields rerank_patent_candidates_v2 sets on its copy
RerankFields == {"retrieval_scorecard", "_retrieval_pass_hits"}

\* the fields _apply_viability_scoring sets on its copy
ViabilityFields ==
    {"viability_scorecard", "market_domain", "opportunity_score_v2", "opportunity_score",
     "scoring_version", "explanations", "score_components"}

\* the record without the fields named
Without(record, fields) == [k \in DOMAIN record \ fields |-> record[k]]

\* row is the candidate with the retrieval scorecard and the pass list, cut
\* down to the known pass names, set on it
RerankedFrom(row, candidate) ==
    /\ Without(row, RerankFields) = Without(candidate, RerankFields)
    /\ RerankFields \subseteq DOMAIN row
    /\ row._retrieval_pass_hits =
          SelectSeq(PassHits(candidate),
                    LAMBDA hit : hit \in SeqToSet(PASS_NAMES) \cup {"single_pass"})

\* row is the reranked record, retrieval scorecard included, with the
\* viability fields added
ScoredFrom(row, patent) ==
    /\ DOMAIN row = DOMAIN patent \cup ViabilityFields
    /\ ViabilityFields \cap DOMAIN patent = {}
    /\ \A k \in DOMAIN patent : row[k] = patent[k]

\* every row comes from an input and every input has its row
RowsFrom(rows, inputs, From(_, _)) ==
    /\ Len(rows) = Len(inputs)
    /\ \A i \in 1..Len(rows) : \E j \in 1..Len(inputs) : From(rows[i], inputs[j])
    /\ \A j \in 1..Len(inputs) : \E i \in 1..Len(rows) : From(rows[i], inputs[j])

\* the step of rerank_patent_candidates_v2
C22_RerankStep ==
    pc = "rerank" /\ pc' = "score" =>
        /\ filtered' = filtered
        /\ normalized' = normalized
        /\ RowsFrom(ranked', filtered, RerankedFrom)

\* the step of _apply_viability_scoring
C22_ViabilityStep ==
    pc = "score" /\ pc' = "limit" =>
        /\ ranked' = ranked
        /\ filtered' = filtered
        /\ RowsFrom(scored', ranked, ScoredFrom)

\* C22: reranking leaves its input candidates as they were, and each record
\* it returns is an input candidate with only retrieval_scorecard and the pass
\* list set; viability scoring leaves the reranked records as they were, and
\* each record it returns is a reranked record, its retrieval_scorecard
\* untouched, with only the viability, market-domain, opportunity, version
\* and explanation fields added
C22_NoCrossMutation == [][C22_RerankStep /\ C22_ViabilityStep]_vars

\* viability scoring has acted on two or more reranked records, one of them
\* found by more than one pass
C22_Witness ==
    /\ pc = "limit"
    /\ Len(scored) >= 2
    /\ RowsFrom(scored, ranked, ScoredFrom)
    /\ RowsFrom(ranked, filtered, RerankedFrom)
    /\ \E i \in 1..Len(scored) : Len(scored[i]._retrieval_pass_hits) >= 2

-----------------------------------------------------------------------------
(* C23: what a merged record takes from which occurrence *)

\* the i-th input record, normalized
InputRecord(i) == normalize_patent_record(pass_records[i][2])

\* the i-th input record is the first with its dedupe key
FirstOccurrence(i) == \A h \in 1..(i - 1) : InputKey(h) # InputKey(i)

\* the position in the output of the record merged under the key of input i
MergedAt(i) == Cardinality({ h \in 1..i : FirstOccurrence(h) })

\* the later occurrences of the key of input i whose field is not empty
LaterWith(i, field) ==
    { l \in (i + 1)..Len(pass_records) :
         InputKey(l) = InputKey(i) /\ Truthy(InputRecord(l)[field]) }

\* the field of the first occurrence, or when that is empty the field of the
\* first later occurrence that has one
Filled(i, field) ==
    IF Truthy(InputRecord(i)[field]) \/ LaterWith(i, field) = {}
    THEN InputRecord(i)[field]
    ELSE InputRecord(CHOOSE l \in LaterWith(i, field) :
                        \A m \in LaterWith(i, field) : l <= m)[field]

\* the fields deduplication may fill from a later occurrence
FillableFields == {"abstract", "filing_date"}

\* C23: the record merged under a dedupe key has every field of the first
\* occurrence of that key in pass order, except that an empty abstract or
\* filing date is the first non-empty one among the later occurrences; a
\* non-empty one is kept, and no other field comes from a later occurrence
C23_MergeKeepsFirst ==
    Deduped =>
        \A i \in 1..Len(pass_records) :
            FirstOccurrence(i) =>
                /\ MergedAt(i) <= Len(normalized)
                /\ \A k \in DOMAIN InputRecord(i) \ FillableFields :
                      normalized[MergedAt(i)][k] = InputRecord(i)[k]
                /\ \A k \in FillableFields :
                      normalized[MergedAt(i)][k] = Filled(i, k)

\* three occurrences of one key were merged: the first without abstract and
\* filing date, the two later ones with different values for both and with
\* other titles or grant dates
C23_Witness ==
    /\ Deduped
    /\ Len(pass_records) = 3
    /\ Len(normalized) = 1
    /\ ~Truthy(InputRecord(1).abstract) /\ ~Truthy(InputRecord(1).filing_date)
    /\ Truthy(InputRecord(2).abstract) /\ Truthy(InputRecord(3).abstract)
    /\ InputRecord(2).abstract # InputRecord(3).abstract
    /\ InputRecord(2).filing_date # InputRecord(3).filing_date
    /\ InputRecord(2).title # InputRecord(1).title
    /\ normalized[1].abstract = InputRecord(2).abstract
    /\ normalized[1].title = InputRecord(1).title

-----------------------------------------------------------------------------
(* C24: pass list and pass diversity *)

\* the names of the passes that returned a record with the dedupe key
PassesOf(key) ==
    { pass_records[i][1] : i \in { h \in 1..Len(pass_records) : InputKey(h) = key } }

\* C24: a candidate returned by exactly k distinct passes has, after
\* deduplication and reranking, a pass list that is the sorted set of those k
\* pass names without duplicates, and a pass_diversity of 2.5 * k, 10.0 when
\* all four passes returned it
C24_PassDiversity ==
    Reranked =>
        \A j \in 1..Len(ranked) :
            /\ ranked[j]._retrieval_pass_hits =
                  SortedStrings(PassesOf(DedupeKey(ranked[j])))
            /\ ranked[j].retrieval_scorecard.pass_diversity =
                  2500 * Cardinality(PassesOf(DedupeKey(ranked[j])))

\* a candidate returned by all four passes, twice by one of them, next to a
\* candidate returned by three
C24_Witness ==
    /\ Reranked
    /\ \E j \in 1..Len(ranked) :
          /\ ranked[j]._retrieval_pass_hits =
                <<"broad_fallback", "expanded_synonyms", "strict_intent", "title_priority">>
          /\ ranked[j].retrieval_scorecard.pass_diversity = 10000
          /\ Cardinality({ i \in 1..Len(pass_records) :
                              InputKey(i) = DedupeKey(ranked[j]) }) > 4
    /\ \E j \in 1..Len(ranked) :
          /\ Len(ranked[j]._retrieval_pass_hits) = 3
          /\ ranked[j].retrieval_scorecard.pass_diversity = 7500

-----------------------------------------------------------------------------
(* C25: what the expansion contains *)

\* the keywords of the call, stripped and lower-cased, the empty ones left out
CleanedKeywords ==
    { Lower(Strip(Or(call.keywords[i], ""))) : i \in 1..Len(call.keywords) } \ {""}

\* the tokens of the keywords
KeywordTokens == UNION { SeqToSet(tokenize_text(k)) : k \in CleanedKeywords }

\* the synonyms of the tokens that have an entry in the table
TableSynonyms ==
    UNION { SeqToSet(KEYWORD_EXPANSION_MAP[t]) :
               t \in KeywordTokens \cap DOMAIN KEYWORD_EXPANSION_MAP }

\* C25 as claimed: whatever the cap, the returned list holds every non-empty
\* keyword, stripped and lower-cased, and every synonym of every keyword token
\* that has a table entry
C25_ContainsAll ==
    Done("expand_keywords_for_v2") =>
        CleanedKeywords \cup TableSynonyms \subseteq SeqToSet(ret)

\* C25: when max_expanded_keywords is at least the number of distinct terms
\* (keywords, their tokens and the synonyms of the tokens), the returned list
\* holds every non-empty keyword, stripped and lower-cased, and every synonym
\* of every keyword token that has a table entry; in every case it holds only
\* such terms, and at most max_expanded_keywords of them
C25_ContainsAllUnderCap ==
    Done("expand_keywords_for_v2") =>
        /\ Cardinality(CleanedKeywords \cup KeywordTokens \cup TableSynonyms)
              <= call.max_expanded_keywords
           => CleanedKeywords \cup TableSynonyms \subseteq SeqToSet(ret)
        /\ SeqToSet(ret) \subseteq CleanedKeywords \cup KeywordTokens \cup TableSynonyms
        /\ Len(ret) <= call.max_expanded_keywords

\* two keywords with mixed case and padding, three tokens with table entries,
\* expanded whole under the default cap
C25_Witness ==
    /\ Done("expand_keywords_for_v2")
    /\ call.keywords = <<"Gas Sensor", " soil ">>
    /\ call.max_expanded_keywords = 24
    /\ CleanedKeywords = {"gas sensor", "soil"}
    /\ Cardinality(TableSynonyms) = 10
    /\ CleanedKeywords \cup TableSynonyms \subseteq SeqToSet(ret)

\* an expansion cut by the cap: a synonym is missing
C25_CutCase ==
    /\ Done("expand_keywords_for_v2")
    /\ call.max_expanded_keywords > 0
    /\ ~(TableSynonyms \subseteq SeqToSet(ret))

-----------------------------------------------------------------------------
(* C26: a stack without network and without a fresh cached snapshot *)

\* the step is a query
Query == GetMacroSignals \/ GetIndustryBenchmark

\* the age in seconds, at the instant now, of a timestamp with or without
\* UTC offset
AgeSeconds(now, timestamp) ==
    now.seconds - (timestamp.seconds
                      - (IF timestamp.offset = <<>> THEN 0 ELSE timestamp.offset[1]))

\* the file at cache_path holds a snapshot whose fetched_at is an ISO
\* timestamp not older than the TTL
FreshCache ==
    /\ stack.file.exists
    /\ stack.file.json
    /\ stack.file.type = "object"
    /\ fromisoformat(Get(stack.file.value, "fetched_at")).ok
    /\ AgeSeconds(fromisoformat(Instants[stack.clock]),
                  fromisoformat(Get(stack.file.value, "fetched_at")))
          <= stack.cache_ttl_hours * 3600

\* the first query of a stack that finds no fresh cached snapshot
FirstQueryWithoutCache == Query /\ stack._snapshot = NotLoaded /\ ~FreshCache

\* the fetched_at of the cached file carries a UTC offset
AwareCache ==
    /\ stack.file.exists
    /\ stack.file.json
    /\ stack.file.type = "object"
    /\ fromisoformat(Get(stack.file.value, "fetched_at")).ok
    /\ fromisoformat(Get(stack.file.value, "fetched_at")).offset # <<>>

\* no benchmark of the snapshot has the label of the name asked for
AbsentName ==
    /\ call'.fn = "get_industry_benchmark"
    /\ _normalized_label(call'.industry_name) \notin DOMAIN stack'._industry_index

\* the query is answered from a snapshot built from the defaults at this
\* instant and written to cache_path
AnsweredFromDefaults ==
    /\ ret'.raised = None
    /\ stack'._snapshot = _build_snapshot(Instants[stack.clock])
    /\ stack'.file = JsonFile("object", stack'._snapshot)
    /\ call'.fn = "get_macro_signals" => ret'.value = SnapshotMacro
    /\ AbsentName => ret'.value = TotalMarket

\* C26 as claimed: the first query of a stack without network that finds no
\* fresh cached snapshot does not raise, builds the snapshot from the defaults
\* and writes it to cache_path; get_macro_signals returns the default signals
\* and get_industry_benchmark for a name absent from the snapshot returns the
\* Total Market benchmark
C26_AnswersWithoutRaising == [][FirstQueryWithoutCache => AnsweredFromDefaults]_vars

\* the same for cache files whose fetched_at carries no UTC offset
C26_AnswersUnlessAware ==
    [][FirstQueryWithoutCache /\ ~AwareCache => AnsweredFromDefaults]_vars

\* a snapshot that is not fresh is never the one in memory
C26_StaleNeverServed ==
    [][Query /\ stack._snapshot = NotLoaded /\ ~FreshCache /\ stack.file.exists
          /\ stack.file.json
       => stack'._snapshot # stack.file.value]_vars

\* a query raised TypeError over a cache file of 2020 with a UTC offset
C26_RaisedCase ==
    /\ pc = "stack"
    /\ call # NoCall
    /\ ret.raised = "TypeError"
    /\ stack._snapshot = NotLoaded
    /\ AwareCache

\* a stale snapshot was replaced by one built from the defaults
C26_RebuiltCase ==
    /\ pc = "stack"
    /\ call # NoCall
    /\ call.fn = "get_industry_benchmark"
    /\ call.industry_name = "Unknown Industry"
    /\ ret.raised = None
    /\ ret.value = TotalMarket
    /\ stack.clock = 4
    /\ stack._snapshot # NotLoaded
    /\ stack._snapshot.fetched_at = Instants[4]

-----------------------------------------------------------------------------
(* C27: the scores of the records get_enriched_patents returns *)

\* get_enriched_patents has returned its list
EnrichedReturned == pc = "analyzer" /\ call # NoCall

\* compute_opportunity_score_v2 applied to the totals of the record's two
\* scorecards and its expiration confidence, under the default weights
ExpectedOpportunity(r) ==
    compute_opportunity_score_v2(r.retrieval_scorecard.total, r.viability_scorecard.total,
                                 expiration_confidence_score(r, today), <<>>)

\* the loaded record came with an opportunity_score_v2 that the analyzer does
\* not recompute: the artifact lacks a scorecard somewhere, or the record's
\* viability scorecard has every required key and the current scoring_version
StoredKept(patents, p) ==
    /\ "opportunity_score_v2" \in DOMAIN p
    /\ HasV2Scores(patents) => ~NeedsRefresh(p)

\* the returned record carries the score stored with a loaded record of its
\* patent number
CarriesStored(patents, r) ==
    \E i \in 1..Len(patents) :
        /\ patents[i].patent_number = r.patent_number
        /\ StoredKept(patents, patents[i])
        /\ patents[i].opportunity_score_v2 = r.opportunity_score_v2

\* C27 as claimed: whatever the artifact contained, every returned record
\* has opportunity_score_v2 equal to compute_opportunity_score_v2 of its
\* scorecard totals and expiration confidence under the default weights, and
\* opportunity_score equal to opportunity_score_v2
C27_AlwaysRecomputed ==
    EnrichedReturned =>
        \A i \in 1..Len(ret) :
            /\ ret[i].opportunity_score_v2 = ExpectedOpportunity(ret[i])
            /\ ret[i].opportunity_score = ret[i].opportunity_score_v2

\* C27: every record returned by get_enriched_patents has opportunity_score
\* equal to opportunity_score_v2, and opportunity_score_v2 equal to
\* compute_opportunity_score_v2 of its scorecard totals and expiration
\* confidence under the default weights unless the loaded record came with an
\* opportunity_score_v2 that is kept as stored (the artifact lacks a scorecard
\* on some record, or the record's viability scorecard has every required key
\* and the current scoring_version)
C27_RecomputedUnlessStored ==
    EnrichedReturned =>
        \A i \in 1..Len(ret) :
            /\ ret[i].opportunity_score = ret[i].opportunity_score_v2
            /\ \/ ret[i].opportunity_score_v2 = ExpectedOpportunity(ret[i])
               \/ CarriesStored(analyzer.patents, ret[i])

\* an artifact of two records, one stored under other weights and refreshed,
\* has been enriched: the returned score is not the stored one
C27_Witness ==
    /\ EnrichedReturned
    /\ Len(ret) = 2
    /\ HasV2Scores(analyzer.patents)
    /\ \E i \in 1..2 :
          /\ NeedsRefresh(analyzer.patents[i])
          /\ "opportunity_score_v2" \in DOMAIN analyzer.patents[i]
          /\ \A j \in 1..2 : ret[j].opportunity_score_v2 # analyzer.patents[i].opportunity_score_v2

-----------------------------------------------------------------------------
(* C28: the paging loop of fetch_patents_patentsview terminates *)

\* the function is in its paging loop, about to send a request
InLoop == pc = "post"

\* the function has returned or raised
LoopLeft == pc \in {"fetch_done", "crashed"}

\* a processed page (one more entry of pages) ends the loop or adds at least
\* one record
PageProgress ==
    Len(pages') = Len(pages) + 1 =>
        \/ pc' = "fetch_done"
        \/ Len(fetch'.all_records) > Len(fetch.all_records)

\* at most requested pages processed and requested * max_retries requests sent
WithinBudget ==
    pc \in {"post", "fetch_done", "crashed"} =>
        /\ Len(pages) <= fetch.requested
        /\ Len(requests) <= fetch.requested * fetch.max_retries

\* C28: whatever the service answers and whichever requests fail, every
\* processed page ends the loop or adds at least one record, at most
\* num_results pages are processed, at most num_results * max_retries requests
\* are sent, and the paging loop is left
C28_LoopTerminates ==
    /\ [][PageProgress]_vars
    /\ []WithinBudget
    /\ InLoop ~> LoopLeft

\* the loop processed as many pages as num_results allows, each after a
\* failed attempt, and returned
C28_Witness ==
    /\ pc = "fetch_done"
    /\ fetch_result.ok
    /\ fetch.requested = MaxNum
    /\ Len(pages) = MaxNum
    /\ Len(requests) = MaxNum * MaxRetries

-----------------------------------------------------------------------------
(* C29: is_likely_expired and expiration_confidence_score agree *)

\* both functions have been called on the record
BothCalled == pc \in {"expiry_discover", "done"}

\* the days from a date of the record to the as-of date, when it parses
DaysSince(field) == DaysBetween(_iso_date(today), _iso_date(Get(call.record, field)))

\* the age rule of the claim: the filing date at least 20*365 days old; else
\* the grant date at least 20*365 days old, or 15*365 for a design patent
OldEnough ==
    IF _iso_date(Get(call.record, "filing_date")) # <<>>
    THEN DaysSince("filing_date") >= 20 * 365
    ELSE /\ _iso_date(Get(call.record, "patent_date")) # <<>>
         /\ DaysSince("patent_date") >=
               (IF Get(call.record, "patent_type") \in {"design", "Design"} THEN 15 ELSE 20) * 365

\* neither date of the record parses
Undated ==
    /\ _iso_date(Get(call.record, "filing_date")) = <<>>
    /\ _iso_date(Get(call.record, "patent_date")) = <<>>

\* discover_patents returned, every candidate with expiration_confidence 10.0
AllCertain ==
    /\ ret.outcome.code = None
    /\ \A i \in 1..Len(ret.outcome.records) :
          ret.outcome.records[i].retrieval_scorecard.expiration_confidence = 10000

\* C29: is_likely_expired is true exactly when expiration_confidence_score is
\* 10.0, which is when the record is old enough by the age rule; it is false
\* and the score 2.0 when neither date parses; and with require_likely_expired
\* a run of discover_patents on the record returns only candidates whose
\* retrieval expiration_confidence is 10.0, or raises zero_results
C29_ExpiryAgrees ==
    /\ BothCalled =>
          /\ ret.likely <=> ret.score = 10000
          /\ ret.likely <=> OldEnough
          /\ Undated => ~ret.likely /\ ret.score = 2000
    /\ pc = "done" /\ cfg.require_likely_expired =>
          IF ret.likely THEN AllCertain ELSE ret.outcome.code = "zero_results"

\* a design patent without filing date, granted exactly 15*365 days before the
\* as-of date, passed the filter and was returned
C29_Witness ==
    /\ pc = "done"
    /\ cfg.require_likely_expired
    /\ Get(call.record, "patent_type") = "Design"
    /\ _iso_date(Get(call.record, "filing_date")) = <<>>
    /\ _iso_date(Get(call.record, "patent_date")) # <<>>
    /\ DaysSince("patent_date") = 15 * 365
    /\ ret.likely
    /\ AllCertain
    /\ Len(ret.outcome.records) = 1

-----------------------------------------------------------------------------
(* C30: when the legacy scrape fallback runs, and what becomes of its result *)

\* the warning discover_patents appends just before it calls
\* _legacy_scrape_google, and nowhere else
FallbackInvoked ==
    \E i \in 1..Len(diagnostics.warnings) :
        diagnostics.warnings[i] =
            "Legacy scrape fallback enabled. This path is unsupported and brittle."

\* the fallback raised: its failure is in the errors
FallbackFailed ==
    \E i \in 1..Len(diagnostics.errors) : diagnostics.errors[i] = "Legacy fallback failed"

\* the error raised is the one the API discovery raised
OriginalError ==
    /\ ~fetch_result.ok
    /\ error.code = fetch_result.code
    /\ error.message = fetch_result.message

\* the diagnostics are those of the API failure with the warning added
OriginalDiagnostics ==
    diagnostics =
        [fetch_result.diagnostics EXCEPT
            !.warnings = Append(@, "Legacy scrape fallback enabled. This path is unsupported and brittle.")]

\* C30: the legacy scrape fallback runs only when allow_legacy_scrape_fallback
\* is set and the API discovery raised a PatentDiscoveryError, never for
\* zero_results nor for another exception; after it a raised error is the
\* original one, with status failed and the failure recorded when the
\* fallback failed and the diagnostics otherwise as the API left them when it
\* returned nothing; a returned list is not empty and has status fallback; and
\* status fallback is given to nothing else
C30_FallbackOnlyAfterApiError ==
    /\ FallbackInvoked =>
          /\ cfg.allow_legacy_scrape_fallback
          /\ pc \in {"raised", "returned"}
          /\ ~fetch_result.ok
          /\ fetch_result.code \in {"missing_api_key", "auth_failed", "transport_error",
                                   "schema_error"}
    /\ pc = "raised" /\ error.code = "zero_results" => ~FallbackInvoked
    /\ pc = "crashed" => ~FallbackInvoked
    /\ pc = "raised" /\ FallbackInvoked =>
          /\ OriginalError
          /\ IF FallbackFailed THEN diagnostics.status = "failed" ELSE OriginalDiagnostics
    /\ pc = "returned" /\ FallbackInvoked =>
          /\ results # <<>>
          /\ diagnostics.status = "fallback"
          /\ diagnostics.provider = "legacy_google_scrape_fallback"
    /\ diagnostics.status = "fallback" => pc = "returned" /\ FallbackInvoked

\* the API key was rejected, the fallback ran and failed: auth_failed raised
\* with the failure in the diagnostics
C30_Witness ==
    /\ pc = "raised"
    /\ FallbackInvoked
    /\ FallbackFailed
    /\ error.code = "auth_failed"
    /\ diagnostics.status = "failed"

\* the fallback ran and returned nothing: the original error raised
C30_EmptyCase ==
    /\ pc = "raised"
    /\ FallbackInvoked
    /\ ~FallbackFailed
    /\ OriginalError

\* the fallback ran and returned records
C30_ReturnedCase ==
    /\ pc = "returned"
    /\ FallbackInvoked
    /\ results # <<>>
    /\ diagnostics.status = "fallback"

=============================================================================
